---- MODULE Spec2Model ----
(***************************************************************************)
(* A model of ko's session lifecycle: tmux.CreateSessionWithContext and    *)
(* tmux.CloseWindow (src/internal/tmux/session.go) and the cleanup command *)
(* with its detached executor (runCleanup, spawnDetachedCleanup and        *)
(* runDetachedCleanup, src/cmd/init.go lines 369-590).                     *)
(* The commands that call them, runNew (src/cmd/new.go) and                *)
(* switchToWorktree (src/cmd/switch.go), are modelled step by step too.    *)
(* Further sections model two CreateSessionWithContext calls in one        *)
(* session, one call of a subprocess wrapper under a context,              *)
(* signals.SetupCancellableContext, validation.ValidateWorktreeName, the   *)
(* lookups of a window by worktree name, several commands run one after    *)
(* the other in one session, and the interactive list of ko list           *)
(* (src/cmd/list.go).                                                      *)
(*                                                                         *)
(* tmux and git are external processes.  Each command the code runs is one *)
(* action: the command is issued, tmux or git acts on its own state, and   *)
(* the call returns (cmd.Run blocks until the process exits).  Whether a   *)
(* command fails for a reason of its own is a nondeterministic choice; a   *)
(* command whose target pane does not exist always fails.  Every command   *)
(* is appended to a log together with what it resolved to, which is what a *)
(* test double of the process runner would record.                         *)
(***************************************************************************)
EXTENDS Integers, Sequences, FiniteSets, TLC

\* Largest number of configured pane commands, len(cfg.PaneCommands).
MaxCmds ==
    3

\* Largest number of times the cleanup function of SetupCancellableContext
\* is called.
MaxCleanupCalls ==
    2

\* Largest number of times SetupCancellableContext is called in one process.
MaxInvocations ==
    2

\* Largest number of commands typed one after the other.
MaxCommands ==
    3

\* Largest number of window lookups made in one run.
MaxFinds ==
    2

\* Largest number of windows in the session of the lookups.
MaxWindows ==
    3

\* Largest number of worktrees the interactive list shows.
MaxListLen ==
    3

\* Largest pane-base-index the tmux server is configured with.
MaxBase ==
    1

\* Largest number of characters of a worktree name given to
\* ValidateWorktreeName on its own.
MaxNameChars ==
    3

VARIABLES
    \* ---- CreateSessionWithContext --------------------------------------
    cfg,            \* config.Config: SetupScript and PaneCommands
    inTmux,         \* IsInTmux(): the TMUX environment variable is set
    fs,             \* what ensureSetupScript finds on the filesystem
    tmuxBase,       \* the tmux server's pane-base-index option
    winPanes,       \* the panes of the created window in tmux's list order
    winActive,      \* position in winPanes of the window's active pane
    paneKeys,       \* what each pane has received through send-keys
    pc,             \* position of CreateSessionWithContext
    i,              \* the loop variable of the split loop (159)
    sendIdx,        \* the loop variable of the range loop (190)
    paneBaseIndex,  \* the local variable paneBaseIndex
    err,            \* the error CreateSessionWithContext returned ("" = nil)
    log,            \* the tmux commands run so far, in order
    \* ---- the cleanup command: environment ------------------------------
    args,           \* the positional arguments of "ko cleanup"
    cwd,            \* os.Getwd(), a path as a sequence of components
    worktrees,      \* the paths of the git worktrees that exist
    windows,        \* the tmux windows, in list-windows order
    ownWindow,      \* index of the window the command runs in (0: none)
    hupPending,     \* the command's own window was killed: SIGHUP is on its way
    \* ---- the cleanup command: runCleanup and spawnDetachedCleanup -------
    cpc,            \* position of the cleanup command
    retTo,          \* where CloseWindow returns to
    worktreeName,   \* the local variable worktreeName
    worktreePath,   \* the local variable worktreePath
    worktreeExists, \* the local variable worktreeExists
    isInTargetWorktree,
    tmuxWindowClosed,
    windowIndex,    \* CloseWindow's local variable windowIndex (0: "")
    sigHandler,     \* the signal goroutine: "none", "listening", "done"
    ctxCancelled,   \* cancel() of the command's context was called
    cerr,           \* the error the command returned ("" = nil)
    \* ---- the detached child: runDetachedCleanup -----------------------
    childPc,        \* position of the spawned "ko cleanup --detached"
    detachedPath,   \* its --detached-path flag
    logFile,        \* ko-cleanup-error.log was written
    clog,           \* the subprocesses and sleeps of the commands, in order
    \* ---- the new and switch commands: runNew and switchToWorktree -------
    quiet,          \* switchToWorktree's parameter quiet
    mainRepoRoot,   \* the local variable mainRepoRoot
    notifying,      \* signal.Notify is in force for sigChan (no signal.Stop yet)
    \* ---- two CreateSessionWithContext calls in one session -------------
    calls,          \* the session and the position of each of the two calls
    \* ---- one call of a subprocess wrapper ------------------------------
    wrapper,        \* the wrapper, its context, its command and its result
    \* ---- lookups of a window by worktree name ------------------------
    finds,          \* the calls of findWindowByWorktree and WindowExists made
    \* ---- validation.ValidateWorktreeName ------------------------------
    nameErr,        \* the error it returned to the command ("" = nil)
    \* ---- the interactive list of ko list -----------------------------
    listModel       \* the listModel of the running program, the last
                    \* message it was given and the tea.Cmd it answered

createVars ==
    <<cfg, inTmux, fs, tmuxBase, winPanes, winActive, paneKeys, pc, i,
      sendIdx, paneBaseIndex, err, log>>

cleanupEnv ==
    <<args, cwd, worktrees, windows, ownWindow, hupPending>>

cleanupLocals ==
    <<cpc, retTo, worktreeName, worktreePath, worktreeExists, isInTargetWorktree,
      tmuxWindowClosed, windowIndex, sigHandler, ctxCancelled, cerr>>

childVars ==
    <<childPc, detachedPath, logFile>>

commandVars ==
    <<quiet, mainRepoRoot, notifying, calls, wrapper, finds, nameErr, listModel>>

cleanupVars ==
    <<cleanupEnv, cleanupLocals, childVars, clog, commandVars>>

vars ==
    <<createVars, cleanupVars>>

----------------------------------------------------------------------------
(* Helpers on sequences.                                                   *)

\* s with x inserted right after position p.
InsertAfter(s, p, x) ==
    [k \in 1..(Len(s) + 1) |->
        IF k <= p THEN s[k] ELSE IF k = p + 1 THEN x ELSE s[k - 1]]

----------------------------------------------------------------------------
(* tmux: the panes of a window.                                            *)
(* A window keeps its panes in a list; a pane's index is its position in   *)
(* the list counted from pane-base-index.  split-window without -b and -f  *)
(* puts the new pane right after the pane it splits, so every pane behind  *)
(* it moves up by one, and the new pane becomes the active one.            *)

\* The position in winPanes a pane index names (0 or out of range if none).
PanePos(idx) ==
    idx - tmuxBase + 1

HasPane(idx) ==
    PanePos(idx) \in 1..Len(winPanes)

\* The identity of the pane a pane index names, -1 when there is none.  The
\* pane new-window makes is 0, the pane the k-th split-window makes is k.
PaneAt(idx) ==
    IF HasPane(idx) THEN winPanes[PanePos(idx)] ELSE -1

----------------------------------------------------------------------------
(* tmux: the windows of the session.  A window is a record of its index,   *)
(* its name and its panes; list-windows prints the windows in the order of *)
(* their indices.                                                          *)

\* The repository's name, filepath.Base of its root /repo.
RepoDir ==
    <<"r", "e", "p", "o">>

Wt ==
    <<"w", "t">>

\* fmt.Sprintf("%s|%s", repoName, worktreeName)
WindowName(repoName, name) ==
    repoName \o <<"|">> \o name

WindowIndices ==
    {windows[k].index : k \in 1..Len(windows)}

\* The index tmux new-window gives the window: the lowest one not in use.
FreeWindowIndex ==
    CHOOSE n \in 1..(Len(windows) + 1) :
        n \notin WindowIndices /\ \A m \in 1..(n - 1) : m \in WindowIndices

\* The session after new-window -n name.  The window starts with the one
\* pane 0; the panes split-window adds to it are kept in winPanes.
WithNewWindow(name) ==
    LET w == [index |-> FreeWindowIndex, name |-> name, panes |-> {0}] IN
      SelectSeq(windows, LAMBDA v : v.index < w.index) \o <<w>>
          \o SelectSeq(windows, LAMBDA v : v.index > w.index)

\* No two calls are running side by side.
NoCalls ==
    <<>>

\* No wrapper is being called on its own.
NoWrapper ==
    <<>>

\* No window has been looked up on its own.
NoFinds ==
    <<>>

\* No list is being shown.
NoList ==
    <<>>

----------------------------------------------------------------------------
(* CreateSessionWithContext, src/internal/tmux/session.go 113-204.         *)

NumPaneCommands ==
    Len(cfg.PaneCommands)

\* ensureSetupScript (24-64): "ok" or the error it returns.
ensureSetupScript(setupScript, f) ==
    IF setupScript = "" THEN "ok"
    ELSE IF f.inWorktree THEN "ok"
    ELSE IF ~f.mainRootOk THEN "failed to get main repo root"
    ELSE IF ~f.inMainRepo THEN "setup script not found in worktree or main repo"
    ELSE IF ~f.copyOk THEN "failed to copy setup script from main repo"
    ELSE "ok"

\* What ensureSetupScript leaves on the filesystem: the script is copied into
\* the worktree when it was only in the main repository (58-61).
ensureSetupScriptCopies(setupScript, f) ==
    /\ setupScript # ""
    /\ ~f.inWorktree
    /\ f.mainRootOk
    /\ f.inMainRepo
    /\ f.copyOk

\* getPaneBaseIndex (276-291).  out: "ok" the command printed the option,
\* "fail" the command failed, "garbled" its output is not a number.
getPaneBaseIndex(out, base) ==
    IF out = "fail" THEN [val |-> 0, err |-> ""]
    ELSE IF out = "garbled" THEN [val |-> 0, err |-> "failed to parse pane-base-index"]
    ELSE [val |-> base, err |-> ""]

\* The pane the i-th iteration of the split loop selects (164).
SplitTarget(b, k) ==
    b + (k - 1)

\* The pane PaneCommands[k] (0-based) is sent to (191).
SendTargetOffByOne(b, k) ==
    b + k

SendTarget(b, k) ==
    b + k + 1

\* "if err != nil { return err }": where control goes after a command.
OnErrorIgnore(ok, next) ==
    next

OnError(ok, next) ==
    IF ok THEN next ELSE "failed"

\* Where control goes once the panes exist (179, 190, 198).
AfterSetup ==
    IF NumPaneCommands > 0 THEN "sendPaneCommands" ELSE "focus"

AfterSplitsNoSetupCheck ==
    "sendSetup"

AfterSplits ==
    IF cfg.SetupScript # "" THEN "sendSetup" ELSE AfterSetup

\* Whether the split loop "for i := 1; i < numPaneCommands; i++" runs again.
LoopAgain(k) ==
    k < NumPaneCommands

\* Where control goes after new-window (151).
AfterNewWindow ==
    IF NumPaneCommands > 0 THEN "splitFirst" ELSE AfterSplits

\* A log entry: the step of the code, the command and its flag, the pane index
\* it targets (-1: none), the keys it sends, whether the target pane existed
\* when it was issued, the pane it resolved to or made (-1: none), and
\* whether it succeeded.  cmd = "" is a step that runs no tmux command.
Entry(step, cmd, flag, target, key, had, pane, ok) ==
    [step |-> step, cmd |-> cmd, flag |-> flag, target |-> target,
     key |-> key, had |-> had, pane |-> pane, ok |-> ok]

NoKey ==
    <<"", 0>>

SetupKey ==
    <<"setup", 0>>

CmdKey(k) ==
    <<"cmd", k>>

Fail(e) ==
    /\ pc' = "failed"
    /\ err' = e

\* 114-116
CheckInTmux ==
    /\ UNCHANGED cleanupVars
    /\ pc = "start"
    /\ IF inTmux
         THEN pc' = "ensureSetupScript" /\ err' = err
         ELSE Fail("not in a tmux session")
    /\ log' = Append(log, Entry("isInTmux", "", "", -1, NoKey, TRUE, -1, inTmux))
    /\ UNCHANGED <<cfg, inTmux, fs, tmuxBase, winPanes, winActive, paneKeys, i,
                   sendIdx, paneBaseIndex>>

\* 118-121
EnsureSetupScript ==
    /\ UNCHANGED cleanupVars
    /\ pc = "ensureSetupScript"
    /\ LET r == ensureSetupScript(cfg.SetupScript, fs) IN
         /\ IF r = "ok"
              THEN pc' = "getPaneBaseIndex" /\ err' = err
              ELSE Fail("failed to ensure setup script")
         /\ fs' = IF ensureSetupScriptCopies(cfg.SetupScript, fs)
                    THEN [fs EXCEPT !.inWorktree = TRUE]
                    ELSE fs
         /\ log' = Append(log, Entry("ensureSetupScript", "", "", -1, NoKey, TRUE,
                                     -1, r = "ok"))
    /\ UNCHANGED <<cfg, inTmux, tmuxBase, winPanes, winActive, paneKeys, i,
                   sendIdx, paneBaseIndex>>

\* 123-127
GetPaneBaseIndex ==
    /\ UNCHANGED cleanupVars
    /\ pc = "getPaneBaseIndex"
    /\ \E out \in {"ok", "fail", "garbled"} :
         LET r == getPaneBaseIndex(out, tmuxBase) IN
           /\ log' = Append(log, Entry("getPaneBaseIndex", "show-options", "-gv",
                                       -1, NoKey, TRUE, -1, out # "fail"))
           /\ paneBaseIndex' = r.val
           /\ IF r.err = ""
                THEN pc' = "newWindow" /\ err' = err
                ELSE Fail("failed to get pane base index")
    /\ UNCHANGED <<cfg, inTmux, fs, tmuxBase, winPanes, winActive, paneKeys, i, sendIdx>>

\* 129-138: tmux new-window -n repo|worktree -c path
NewWindow ==
    /\ pc = "newWindow"
    /\ \E ok \in BOOLEAN :
         /\ log' = Append(log, Entry("newWindow", "new-window", "-n", -1, NoKey,
                                     TRUE, IF ok THEN 0 ELSE -1, ok))
         /\ IF ok
              THEN /\ windows' = WithNewWindow(WindowName(RepoDir, worktreeName))
                   /\ winPanes' = <<0>>
                   /\ winActive' = 1
                   /\ pc' = AfterNewWindow
                   /\ err' = err
              ELSE /\ Fail("failed to create tmux window")
                   /\ UNCHANGED <<windows, winPanes, winActive>>
    /\ UNCHANGED <<args, cwd, worktrees, ownWindow, hupPending, cleanupLocals,
                   childVars, clog, commandVars>>
    /\ UNCHANGED <<cfg, inTmux, fs, tmuxBase, paneKeys, i, sendIdx, paneBaseIndex>>

\* tmux split-window in the current window: the new pane goes right after
\* the active pane and becomes the active pane.
TmuxSplit(step, flag, ok) ==
    LET new == Len(winPanes) IN
      /\ log' = Append(log, Entry(step, "split-window", flag, -1, NoKey,
                                  TRUE, IF ok THEN new ELSE -1, ok))
      /\ IF ok
           THEN /\ winPanes' = InsertAfter(winPanes, winActive, new)
                /\ winActive' = winActive + 1
           ELSE UNCHANGED <<winPanes, winActive>>

\* tmux select-pane -t idx in the current window.
TmuxSelect(step, idx, ok) ==
    /\ log' = Append(log, Entry(step, "select-pane", "-t", idx, NoKey,
                                HasPane(idx), IF ok THEN PaneAt(idx) ELSE -1, ok))
    /\ winActive' = IF ok THEN PanePos(idx) ELSE winActive

\* tmux send-keys -t idx keys C-m in the current window.
TmuxSendKeys(step, idx, key, ok) ==
    /\ log' = Append(log, Entry(step, "send-keys", "-t", idx, key,
                                HasPane(idx), IF ok THEN PaneAt(idx) ELSE -1, ok))
    /\ paneKeys' = IF ok
                     THEN [paneKeys EXCEPT ![PaneAt(idx)] = Append(@, key)]
                     ELSE paneKeys

\* 151-155: the first pane command's pane, side by side with the setup pane
SplitFirst ==
    /\ UNCHANGED cleanupVars
    /\ pc = "splitFirst"
    /\ \E ok \in BOOLEAN :
         /\ TmuxSplit("splitFirst", "-h", ok)
         /\ pc' = OnError(ok, IF LoopAgain(1) THEN "selectTarget" ELSE AfterSplits)
         /\ err' = IF pc' = "failed" THEN "tmux command failed" ELSE err
    /\ i' = 1
    /\ UNCHANGED <<cfg, inTmux, fs, tmuxBase, paneKeys, sendIdx, paneBaseIndex>>

\* 159-170: select-pane -t paneBaseIndex + (i - 1)
SelectTarget ==
    /\ UNCHANGED cleanupVars
    /\ pc = "selectTarget"
    /\ \E envOk \in BOOLEAN :
         LET targetPaneIdx == SplitTarget(paneBaseIndex, i)
             ok == envOk /\ HasPane(targetPaneIdx) IN
           /\ TmuxSelect("selectTarget", targetPaneIdx, ok)
           /\ pc' = OnError(ok, "splitBelow")
           /\ err' = IF pc' = "failed" THEN "tmux command failed" ELSE err
    /\ UNCHANGED <<cfg, inTmux, fs, tmuxBase, winPanes, paneKeys, i, sendIdx, paneBaseIndex>>

\* 171-174: split-window -v, then i++ and the loop test
SplitBelow ==
    /\ UNCHANGED cleanupVars
    /\ pc = "splitBelow"
    /\ \E ok \in BOOLEAN :
         /\ TmuxSplit("splitBelow", "-v", ok)
         /\ pc' = OnError(ok, IF LoopAgain(i + 1) THEN "selectTarget" ELSE AfterSplits)
         /\ err' = IF pc' = "failed" THEN "tmux command failed" ELSE err
         /\ i' = IF ok THEN i + 1 ELSE i
    /\ UNCHANGED <<cfg, inTmux, fs, tmuxBase, paneKeys, sendIdx, paneBaseIndex>>

\* 179-183: the setup script goes to pane paneBaseIndex
SendSetup ==
    /\ UNCHANGED cleanupVars
    /\ pc = "sendSetup"
    /\ \E envOk \in BOOLEAN :
         LET ok == envOk /\ HasPane(paneBaseIndex) IN
           /\ TmuxSendKeys("sendSetup", paneBaseIndex, SetupKey, ok)
           /\ pc' = OnError(ok, AfterSetup)
           /\ err' = IF pc' = "failed" THEN "failed to send keys to pane" ELSE err
    /\ UNCHANGED <<cfg, inTmux, fs, tmuxBase, winPanes, winActive, i, sendIdx, paneBaseIndex>>

\* 190-195: for i, cmd := range cfg.PaneCommands
SendPaneCommand ==
    /\ UNCHANGED cleanupVars
    /\ pc = "sendPaneCommands"
    /\ \E envOk \in BOOLEAN :
         LET paneIdx == SendTarget(paneBaseIndex, sendIdx)
             ok == envOk /\ HasPane(paneIdx) IN
           /\ TmuxSendKeys("sendPaneCommands", paneIdx,
                           CmdKey(cfg.PaneCommands[sendIdx + 1]), ok)
           /\ pc' = OnError(ok, IF sendIdx + 1 < NumPaneCommands
                                  THEN "sendPaneCommands" ELSE "focus")
           /\ err' = IF pc' = "failed" THEN "failed to send keys to pane" ELSE err
           /\ sendIdx' = IF ok THEN sendIdx + 1 ELSE sendIdx
    /\ UNCHANGED <<cfg, inTmux, fs, tmuxBase, winPanes, winActive, i, paneBaseIndex>>

\* 197-203: focus the setup pane and return nil
FocusFirst ==
    /\ UNCHANGED cleanupVars
    /\ pc = "focus"
    /\ \E envOk \in BOOLEAN :
         LET ok == envOk /\ HasPane(paneBaseIndex) IN
           /\ TmuxSelect("focus", paneBaseIndex, ok)
           /\ pc' = OnError(ok, "done")
           /\ err' = IF pc' = "failed" THEN "tmux command failed" ELSE err
    /\ UNCHANGED <<cfg, inTmux, fs, tmuxBase, winPanes, paneKeys, i, sendIdx, paneBaseIndex>>

----------------------------------------------------------------------------
(* Strings are sequences of characters, paths sequences of components.     *)

IsPrefix(p, s) ==
    Len(p) <= Len(s) /\ SubSeq(s, 1, Len(p)) = p

\* strings.HasSuffix
HasSuffix(s, suffix) ==
    Len(suffix) <= Len(s) /\ SubSeq(s, Len(s) - Len(suffix) + 1, Len(s)) = suffix

\* strings.Contains
Contains(s, sub) ==
    \E k \in 1..(Len(s) - Len(sub) + 1) : SubSeq(s, k, k + Len(sub) - 1) = sub

\* strings.ContainsAny
ContainsAny(s, chars) ==
    \E k \in 1..Len(s) : s[k] \in chars

LowerLetters ==
    <<"a", "b", "c", "d", "e", "f", "g", "h", "i", "j", "k", "l", "m",
      "n", "o", "p", "q", "r", "s", "t", "u", "v", "w", "x", "y", "z">>

UpperLetters ==
    <<"A", "B", "C", "D", "E", "F", "G", "H", "I", "J", "K", "L", "M",
      "N", "O", "P", "Q", "R", "S", "T", "U", "V", "W", "X", "Y", "Z">>

\* strings.ToUpper
ToUpper(s) ==
    [k \in 1..Len(s) |->
        IF \E n \in 1..Len(LowerLetters) : LowerLetters[n] = s[k]
          THEN UpperLetters[CHOOSE n \in 1..Len(LowerLetters) : LowerLetters[n] = s[k]]
          ELSE s[k]]

\* filepath.Base and filepath.Dir of a path with at least one component
Base(path) ==
    path[Len(path)]

Dir(path) ==
    SubSeq(path, 1, Len(path) - 1)

----------------------------------------------------------------------------
(* ValidateWorktreeName, src/internal/validation/validation.go 23-70.      *)

MaxNameLen ==
    255

\* The characters "\x00", "\n", "\r", "\t" of line 48.
ControlChars ==
    {"<NUL>", "<LF>", "<CR>", "<TAB>"}

\* The elements of a path between its separators "/".
CleanSplit(s) ==
    LET slashes == {k \in 1..Len(s) : s[k] = "/"}
        n == Cardinality(slashes)
        cut(j) == IF j = 0 THEN 0
                  ELSE IF j = n + 1 THEN Len(s) + 1
                  ELSE CHOOSE p \in slashes : Cardinality({q \in slashes : q < p}) = j - 1
    IN [j \in 1..(n + 1) |-> SubSeq(s, cut(j - 1) + 1, cut(j) - 1)]

\* filepath.Clean's pass over the elements: empty elements and "." are
\* dropped, ".." takes back the element before it, is dropped at the root
\* and is kept at the start of a relative path.
RECURSIVE CleanElements(_, _, _)
CleanElements(elems, kept, rooted) ==
    IF elems = <<>> THEN kept
    ELSE LET e == Head(elems) IN
           IF e = <<>> \/ e = <<".">> THEN CleanElements(Tail(elems), kept, rooted)
           ELSE IF e = <<".", ".">>
             THEN IF kept # <<>> /\ kept[Len(kept)] # <<".", ".">>
                    THEN CleanElements(Tail(elems), SubSeq(kept, 1, Len(kept) - 1), rooted)
                  ELSE IF rooted THEN CleanElements(Tail(elems), kept, rooted)
                  ELSE CleanElements(Tail(elems), Append(kept, e), rooted)
           ELSE CleanElements(Tail(elems), Append(kept, e), rooted)

RECURSIVE CleanJoin(_)
CleanJoin(elems) ==
    IF elems = <<>> THEN <<>>
    ELSE IF Len(elems) = 1 THEN elems[1]
    ELSE elems[1] \o <<"/">> \o CleanJoin(Tail(elems))

\* filepath.Clean (line 53) on a system whose separator is "/": "" becomes
\* ".", a name without a separator that is not empty is kept.
CleanName(name) ==
    IF name = <<>> THEN <<".">>
    ELSE LET rooted == name[1] = "/"
             out == CleanJoin(CleanElements(CleanSplit(name), <<>>, rooted)) IN
           IF rooted THEN <<"/">> \o out
           ELSE IF out = <<>> THEN <<".">>
           ELSE out

ReservedNames ==
    {<<"C", "O", "N">>, <<"P", "R", "N">>, <<"A", "U", "X">>, <<"N", "U", "L">>}
      \cup {<<"C", "O", "M", d>> : d \in {"1", "2", "3", "4", "5", "6", "7", "8", "9"}}
      \cup {<<"L", "P", "T", d>> : d \in {"1", "2", "3", "4", "5", "6", "7", "8", "9"}}

\* "" is nil, anything else the error returned.
ValidateAcceptsAll(name) ==
    ""

ValidateLengthOffByOne(name) ==
    IF name = <<>> THEN "worktree name cannot be empty"
    ELSE IF Len(name) >= MaxNameLen THEN "worktree name too long"
    ELSE IF ContainsAny(name, {"/", "\\"}) THEN "worktree name cannot contain path separators"
    ELSE IF name = <<".">> \/ name = <<".", ".">> THEN "worktree name cannot be '.' or '..'"
    ELSE IF Contains(name, <<".", ".">>) THEN "worktree name cannot contain '..'"
    ELSE IF ContainsAny(name, ControlChars) THEN "worktree name contains invalid characters"
    ELSE IF CleanName(name) # name THEN "worktree name contains invalid path components"
    ELSE IF ToUpper(name) \in ReservedNames THEN "worktree name cannot be a reserved system name"
    ELSE ""

ValidateCaseSensitive(name) ==
    IF name = <<>> THEN "worktree name cannot be empty"
    ELSE IF Len(name) > MaxNameLen THEN "worktree name too long"
    ELSE IF ContainsAny(name, {"/", "\\"}) THEN "worktree name cannot contain path separators"
    ELSE IF name = <<".">> \/ name = <<".", ".">> THEN "worktree name cannot be '.' or '..'"
    ELSE IF Contains(name, <<".", ".">>) THEN "worktree name cannot contain '..'"
    ELSE IF ContainsAny(name, ControlChars) THEN "worktree name contains invalid characters"
    ELSE IF CleanName(name) # name THEN "worktree name contains invalid path components"
    ELSE IF name \in ReservedNames THEN "worktree name cannot be a reserved system name"
    ELSE ""

\* The traversal checks made before the separator check.
ValidateTraversalFirst(name) ==
    IF name = <<>> THEN "worktree name cannot be empty"
    ELSE IF Len(name) > MaxNameLen THEN "worktree name too long"
    ELSE IF name = <<".">> \/ name = <<".", ".">> THEN "worktree name cannot be '.' or '..'"
    ELSE IF Contains(name, <<".", ".">>) THEN "worktree name cannot contain '..'"
    ELSE IF ContainsAny(name, {"/", "\\"}) THEN "worktree name cannot contain path separators"
    ELSE IF ContainsAny(name, ControlChars) THEN "worktree name contains invalid characters"
    ELSE IF CleanName(name) # name THEN "worktree name contains invalid path components"
    ELSE IF ToUpper(name) \in ReservedNames THEN "worktree name cannot be a reserved system name"
    ELSE ""

\* The control characters left unchecked.
ValidateNoControlCheck(name) ==
    IF name = <<>> THEN "worktree name cannot be empty"
    ELSE IF Len(name) > MaxNameLen THEN "worktree name too long"
    ELSE IF ContainsAny(name, {"/", "\\"}) THEN "worktree name cannot contain path separators"
    ELSE IF name = <<".">> \/ name = <<".", ".">> THEN "worktree name cannot be '.' or '..'"
    ELSE IF Contains(name, <<".", ".">>) THEN "worktree name cannot contain '..'"
    ELSE IF CleanName(name) # name THEN "worktree name contains invalid path components"
    ELSE IF ToUpper(name) \in ReservedNames THEN "worktree name cannot be a reserved system name"
    ELSE ""

ValidateWorktreeName(name) ==
    IF name = <<>> THEN "worktree name cannot be empty"
    ELSE IF Len(name) > MaxNameLen THEN "worktree name too long"
    ELSE IF ContainsAny(name, {"/", "\\"}) THEN "worktree name cannot contain path separators"
    ELSE IF name = <<".">> \/ name = <<".", ".">> THEN "worktree name cannot be '.' or '..'"
    ELSE IF Contains(name, <<".", ".">>) THEN "worktree name cannot contain '..'"
    ELSE IF ContainsAny(name, ControlChars) THEN "worktree name contains invalid characters"
    ELSE IF CleanName(name) # name THEN "worktree name contains invalid path components"
    ELSE IF ToUpper(name) \in ReservedNames THEN "worktree name cannot be a reserved system name"
    ELSE ""

----------------------------------------------------------------------------
(* The environment of the cleanup command: one repository /repo with its   *)
(* worktrees under /repo/.ko, and one tmux session.                        *)

DotKo ==
    <<".", "k", "o">>

SrcDir ==
    <<"s", "r", "c">>

TmpDir ==
    <<"t", "m", "p">>

Wx ==
    <<"x">>

RepoRoot ==
    <<RepoDir>>

\* The path "ko new" gives the worktree called name.
WorktreePathOf(name) ==
    <<RepoDir, DotKo, name>>

\* git rev-parse --is-inside-work-tree succeeds (git.IsGitRepo, worktree.go 28-33)
IsGitRepo(dir) ==
    IsPrefix(RepoRoot, dir)

\* git-dir differs from git-common-dir (git.IsInWorktree, worktree.go 86-105)
IsInWorktree(dir) ==
    \E p \in worktrees : IsPrefix(p, dir)

\* git rev-parse --show-toplevel (git.GetCurrentWorktreePath, worktree.go 140-149)
ShowToplevel(dir) ==
    IF IsInWorktree(dir)
      THEN CHOOSE p \in worktrees : IsPrefix(p, dir)
      ELSE RepoRoot

\* The windows tmux list-windows prints whose line ends with "|" + name
\* (session.go 216-225).  A line is "index:window name"; the index holds no
\* "|", so the line has the suffix exactly when the window name has it.
MatchingWindows(name) ==
    SelectSeq(windows, LAMBDA w : HasSuffix(w.name, <<"|">> \o name))

\* A search that takes the first window listed, whatever its name.
FirstListed(name) ==
    IF windows = <<>> THEN <<>> ELSE <<windows[1].index>>

\* The window index CloseWindow finds: <<>> is "".
FirstMatch(name) ==
    LET m == MatchingWindows(name) IN
      IF m = <<>> THEN <<>> ELSE <<m[1].index>>

\* The delays of init.go 500 and 576, in seconds.
SyncDelaySeconds ==
    1

DetachedDelaySeconds ==
    2

CEntry(proc, cmd, path, index, ok) ==
    [proc |-> proc, cmd |-> cmd, path |-> path, index |-> index, ok |-> ok]

----------------------------------------------------------------------------
(* runCleanup, src/cmd/init.go 369-516.                                    *)

\* filepath.Join(currentDir, ".ko", worktreeName) (line 445); the name has
\* passed ValidateWorktreeName, so Join's Clean changes nothing.
JoinWorktreePath(currentDir, name) ==
    currentDir \o <<DotKo, name>>

\* Lines 465-466: strings.HasPrefix(currentPath, absWorktreePath + "/") ||
\* currentPath == absWorktreePath.
InTargetWorktree(currentPath, absWorktreePath) ==
    \/ (Len(absWorktreePath) < Len(currentPath) /\ IsPrefix(absWorktreePath, currentPath))
    \/ currentPath = absWorktreePath

\* A return statement.  Before the deferred function of 428-431 is
\* registered the command returns at once; after it, the return runs
\* signal.Stop and then waits for the signal goroutine to close done.
ReturnPlace ==
    IF sigHandler = "none" THEN "returned" ELSE "deferWait"

\* 369-405: the worktree name from the argument or from the current worktree
ResolveName ==
    /\ UNCHANGED <<createVars, commandVars>>
    /\ cpc = "start"
    /\ \E gitOk \in BOOLEAN :
         LET currentPath == ShowToplevel(cwd)
             e == IF args # <<>> THEN ""
                  ELSE IF ~IsGitRepo(cwd) THEN "not in a git repository"
                  ELSE IF ~IsInWorktree(cwd) THEN "not in a worktree"
                  ELSE IF ~gitOk THEN "failed to get current worktree"
                  ELSE IF Base(Dir(currentPath)) # DotKo
                         THEN "current worktree is not a ko worktree"
                  ELSE "" IN
           /\ clog' = IF args = <<>>
                        THEN Append(clog, CEntry("parent", "git rev-parse", cwd, 0,
                                                 e \notin {"not in a git repository",
                                                           "failed to get current worktree"}))
                        ELSE clog
           /\ IF e = ""
                THEN /\ worktreeName' = IF args # <<>> THEN args[1] ELSE Base(currentPath)
                     /\ cpc' = "validate"
                     /\ cerr' = cerr
                ELSE /\ worktreeName' = worktreeName
                     /\ cpc' = ReturnPlace
                     /\ cerr' = e
    /\ UNCHANGED <<cleanupEnv, childVars, retTo, worktreePath, worktreeExists,
                   isInTargetWorktree, tmuxWindowClosed, windowIndex, sigHandler,
                   ctxCancelled>>

\* 407-410
Validate ==
    /\ UNCHANGED <<createVars, quiet, mainRepoRoot, notifying, calls, wrapper, finds, listModel>>
    /\ cpc = "validate"
    /\ LET e == ValidateWorktreeName(worktreeName) IN
         /\ nameErr' = e
         /\ IF e = ""
              THEN cpc' = "setupSignals" /\ cerr' = cerr
              ELSE cpc' = ReturnPlace /\ cerr' = "invalid worktree name"
    /\ UNCHANGED <<cleanupEnv, childVars, clog, retTo, worktreeName, worktreePath,
                   worktreeExists, isInTargetWorktree, tmuxWindowClosed, windowIndex,
                   sigHandler, ctxCancelled>>

\* 412-431: the context, signal.Notify, the signal goroutine and the deferred
\* function that stops the notification and waits for the goroutine
SetupSignals ==
    /\ UNCHANGED <<createVars, quiet, mainRepoRoot, calls, wrapper, finds, nameErr, listModel>>
    /\ cpc = "setupSignals"
    /\ sigHandler' = "listening"
    /\ notifying' = TRUE
    /\ cpc' = "checkRepo"
    /\ UNCHANGED <<cleanupEnv, childVars, clog, retTo, worktreeName, worktreePath,
                   worktreeExists, isInTargetWorktree, tmuxWindowClosed, windowIndex,
                   ctxCancelled, cerr>>

\* 433-442: os.Getwd and git.IsGitRepo
CheckRepo ==
    /\ UNCHANGED <<createVars, commandVars>>
    /\ cpc = "checkRepo"
    /\ clog' = Append(clog, CEntry("parent", "git rev-parse", cwd, 0, IsGitRepo(cwd)))
    /\ IF IsGitRepo(cwd)
         THEN cpc' = "statWorktree" /\ cerr' = cerr
         ELSE cpc' = ReturnPlace /\ cerr' = "not in a git repository"
    /\ UNCHANGED <<cleanupEnv, childVars, retTo, worktreeName, worktreePath,
                   worktreeExists, isInTargetWorktree, tmuxWindowClosed, windowIndex,
                   sigHandler, ctxCancelled>>

\* 444-451: the worktree path and whether it exists
StatWorktree ==
    /\ UNCHANGED <<createVars, commandVars>>
    /\ cpc = "statWorktree"
    /\ worktreePath' = JoinWorktreePath(cwd, worktreeName)
    /\ worktreeExists' = (worktreePath' \in worktrees)
    /\ cpc' = "decide"
    /\ UNCHANGED <<cleanupEnv, childVars, clog, retTo, worktreeName,
                   isInTargetWorktree, tmuxWindowClosed, windowIndex, sigHandler,
                   ctxCancelled, cerr>>

\* 453-472: inside the target worktree and in tmux, the detached path
Decide ==
    /\ UNCHANGED <<createVars, commandVars>>
    /\ cpc = "decide"
    /\ isInTargetWorktree' = InTargetWorktree(cwd, worktreePath)
    /\ cpc' = IF isInTargetWorktree' /\ inTmux THEN "spawn" ELSE "syncClose"
    /\ UNCHANGED <<cleanupEnv, childVars, clog, retTo, worktreeName, worktreePath,
                   worktreeExists, tmuxWindowClosed, windowIndex, sigHandler,
                   ctxCancelled, cerr>>

\* 474-493: in tmux, git.GetRepoName and then tmux.CloseWindow
SyncClose ==
    /\ UNCHANGED <<createVars, commandVars>>
    /\ cpc = "syncClose"
    /\ tmuxWindowClosed' = FALSE
    /\ IF inTmux
         THEN /\ \E ok \in BOOLEAN :
                   clog' = Append(clog, CEntry("parent", "git rev-parse", cwd, 0, ok))
              /\ cpc' = "closeList"
              /\ retTo' = "sync"
         ELSE /\ clog' = clog
              /\ cpc' = "syncSleep"
              /\ retTo' = retTo
    /\ UNCHANGED <<cleanupEnv, childVars, worktreeName, worktreePath, worktreeExists,
                   isInTargetWorktree, windowIndex, sigHandler, ctxCancelled, cerr>>

\* Where CloseWindow returns to, and what its caller makes of the error:
\* runCleanup sets tmuxWindowClosed (485-490), spawnDetachedCleanup only
\* prints a warning (530-535), any other caller gets the error.
ReturnFromCloseWindow(e) ==
    /\ cpc' = IF retTo = "sync" THEN "syncSleep"
              ELSE IF retTo = "spawn" THEN "spawnExecutable"
              ELSE IF e = "" THEN "closed" ELSE "closeFailed"
    /\ tmuxWindowClosed' = IF retTo = "sync" THEN e = "" ELSE tmuxWindowClosed

\* CloseWindow, src/internal/tmux/session.go 207-229: list-windows and the
\* search for the window
CloseListWindows ==
    /\ UNCHANGED <<createVars, commandVars>>
    /\ cpc = "closeList"
    /\ \E ok \in BOOLEAN :
         LET found == IF ok THEN FirstMatch(worktreeName) ELSE <<>> IN
           /\ clog' = Append(clog, CEntry("parent", "list-windows", <<>>, 0, ok))
           /\ windowIndex' = found
           /\ IF found = <<>>
                THEN ReturnFromCloseWindow("no tmux window found")
                ELSE cpc' = "closeKill" /\ tmuxWindowClosed' = tmuxWindowClosed
    /\ UNCHANGED <<cleanupEnv, childVars, retTo, worktreeName, worktreePath,
                   worktreeExists, isInTargetWorktree, sigHandler, ctxCancelled, cerr>>

\* CloseWindow, src/internal/tmux/session.go 231-238: kill-window.  tmux
\* hangs up the processes of the window's panes.
CloseKillWindow ==
    /\ UNCHANGED <<createVars, commandVars>>
    /\ cpc = "closeKill"
    /\ \E envOk \in BOOLEAN :
         LET idx == windowIndex[1]
             ok == envOk /\ idx \in WindowIndices IN
           /\ clog' = Append(clog, CEntry("parent", "kill-window", <<>>, idx, ok))
           /\ windows' = IF ok THEN SelectSeq(windows, LAMBDA w : w.index # idx)
                               ELSE windows
           /\ hupPending' = (hupPending \/ (ok /\ idx = ownWindow))
           /\ ReturnFromCloseWindow(IF ok THEN "" ELSE "failed to close tmux window")
    /\ UNCHANGED <<args, cwd, worktrees, ownWindow, childVars, retTo, worktreeName,
                   worktreePath, worktreeExists, isInTargetWorktree, windowIndex,
                   sigHandler, ctxCancelled, cerr>>

\* Whether runCleanup waits before it removes the worktree (498).
SleepsNever(closed) ==
    FALSE

SleepsBeforeRemove(closed) ==
    closed

\* 495-501: time.Sleep(1 * time.Second) when the window was closed
SyncSleep ==
    /\ UNCHANGED <<createVars, commandVars>>
    /\ cpc = "syncSleep"
    /\ clog' = IF SleepsBeforeRemove(tmuxWindowClosed)
                 THEN Append(clog, CEntry("parent", "sleep", <<>>, SyncDelaySeconds, TRUE))
                 ELSE clog
    /\ cpc' = "syncRemove"
    /\ UNCHANGED <<cleanupEnv, childVars, retTo, worktreeName, worktreePath,
                   worktreeExists, isInTargetWorktree, tmuxWindowClosed, windowIndex,
                   sigHandler, ctxCancelled, cerr>>

\* git worktree remove --force path (git.RemoveWorktreeWithContext,
\* worktree.go 59-69): it succeeds only on a worktree that exists.
GitRemoveOk(envOk, cancelled, path) ==
    envOk /\ ~cancelled /\ path \in worktrees

\* 503-515: the removal (with the command's context), "Cleanup complete!"
\* and return nil
SyncRemove ==
    /\ UNCHANGED <<createVars, commandVars>>
    /\ cpc = "syncRemove"
    /\ IF worktreeExists
         THEN \E envOk \in BOOLEAN :
                LET ok == GitRemoveOk(envOk, ctxCancelled, worktreePath) IN
                  /\ clog' = Append(clog, CEntry("parent", "git worktree remove",
                                                 worktreePath, 0, ok))
                  /\ worktrees' = IF ok THEN worktrees \ {worktreePath} ELSE worktrees
         ELSE UNCHANGED <<clog, worktrees>>
    /\ cpc' = ReturnPlace
    /\ cerr' = ""
    /\ UNCHANGED <<args, cwd, windows, ownWindow, hupPending, childVars, retTo,
                   worktreeName, worktreePath, worktreeExists, isInTargetWorktree,
                   tmuxWindowClosed, windowIndex, sigHandler, ctxCancelled>>

\* 428-429 at a return: the deferred function starts with signal.Stop(sigChan)
DeferredStop ==
    /\ UNCHANGED <<createVars, quiet, mainRepoRoot, calls, wrapper, finds, nameErr, listModel>>
    /\ cpc = "deferWait"
    /\ notifying
    /\ notifying' = FALSE
    /\ UNCHANGED <<cleanupEnv, cleanupLocals, childVars, clog>>

\* 430 at a return: <-done returns once the signal goroutine has closed
\* done; until then the command does not return.
DeferredWait ==
    /\ UNCHANGED <<createVars, commandVars>>
    /\ cpc = "deferWait"
    /\ ~notifying
    /\ sigHandler = "done"
    /\ cpc' = "returned"
    /\ ctxCancelled' = TRUE
    /\ UNCHANGED <<cleanupEnv, childVars, clog, retTo, worktreeName, worktreePath,
                   worktreeExists, isInTargetWorktree, tmuxWindowClosed, windowIndex,
                   sigHandler, cerr>>

Running ==
    cpc \notin {"idle", "start", "validate", "setupSignals", "returned", "killed"}

\* 422-427: SIGINT or SIGTERM arrives while the goroutine listens: it calls
\* cancel() and closes done.
Signal ==
    /\ UNCHANGED <<createVars, commandVars>>
    /\ notifying
    /\ sigHandler = "listening"
    /\ Running
    /\ sigHandler' = "done"
    /\ ctxCancelled' = TRUE
    /\ UNCHANGED <<cleanupEnv, childVars, clog, cpc, retTo, worktreeName, worktreePath,
                   worktreeExists, isInTargetWorktree, tmuxWindowClosed, windowIndex,
                   cerr>>

\* The SIGHUP of the killed window ends the command, which handles only
\* os.Interrupt and SIGTERM (418), wherever it is.
Hangup ==
    /\ UNCHANGED <<createVars, commandVars>>
    /\ hupPending
    /\ cpc \notin {"idle", "returned", "killed"}
    /\ cpc' = "killed"
    /\ UNCHANGED <<cleanupEnv, childVars, clog, retTo, worktreeName, worktreePath,
                   worktreeExists, isInTargetWorktree, tmuxWindowClosed, windowIndex,
                   sigHandler, ctxCancelled, cerr>>

----------------------------------------------------------------------------
(* spawnDetachedCleanup, src/cmd/init.go 520-566.                          *)

\* 521-535: git.GetRepoName and tmux.CloseWindow, before anything else
SpawnCloseWindow ==
    /\ UNCHANGED <<createVars, commandVars>>
    /\ cpc = "spawn"
    /\ \E ok \in BOOLEAN :
         clog' = Append(clog, CEntry("parent", "git rev-parse", cwd, 0, ok))
    /\ cpc' = "closeList"
    /\ retTo' = "spawn"
    /\ UNCHANGED <<cleanupEnv, childVars, worktreeName, worktreePath, worktreeExists,
                   isInTargetWorktree, tmuxWindowClosed, windowIndex, sigHandler,
                   ctxCancelled, cerr>>

\* 537-541: os.Executable
SpawnExecutable ==
    /\ UNCHANGED <<createVars, commandVars>>
    /\ cpc = "spawnExecutable"
    /\ \E ok \in BOOLEAN :
         IF ok
           THEN cpc' = "spawnStart" /\ cerr' = cerr
           ELSE cpc' = ReturnPlace /\ cerr' = "failed to get executable path"
    /\ UNCHANGED <<cleanupEnv, childVars, clog, retTo, worktreeName, worktreePath,
                   worktreeExists, isInTargetWorktree, tmuxWindowClosed, windowIndex,
                   sigHandler, ctxCancelled>>

\* 543-566: cmd.Start of "ko cleanup --detached --detached-path path" in a
\* process group of its own, not waited for
SpawnStart ==
    /\ UNCHANGED <<createVars, commandVars>>
    /\ cpc = "spawnStart"
    /\ \E ok \in BOOLEAN :
         /\ clog' = Append(clog, CEntry("parent", "start-child", worktreePath, 0, ok))
         /\ IF ok
              THEN /\ childPc' = "start"
                   /\ detachedPath' = worktreePath
                   /\ cerr' = ""
              ELSE /\ UNCHANGED <<childPc, detachedPath>>
                   /\ cerr' = "failed to spawn detached cleanup process"
    /\ cpc' = ReturnPlace
    /\ UNCHANGED <<cleanupEnv, logFile, retTo, worktreeName, worktreePath,
                   worktreeExists, isInTargetWorktree, tmuxWindowClosed, windowIndex,
                   sigHandler, ctxCancelled>>

----------------------------------------------------------------------------
(* The detached child: runCleanup 369-373 and runDetachedCleanup 569-590.  *)

\* 548-555: the child has no stdio of the parent's and a process group of
\* its own; what becomes of the parent does not reach it.
ChildDiesWithParent(parent) ==
    parent # "killed"

ChildRuns(parent) ==
    TRUE

\* 570-572: "detached-path not provided"
EmptyPathAccepted(path) ==
    FALSE

EmptyPathRejected(path) ==
    path = <<>>

\* 570-572
ChildStart ==
    /\ UNCHANGED <<createVars, commandVars, cleanupEnv, cleanupLocals, clog, detachedPath, logFile>>
    /\ childPc = "start"
    /\ ChildRuns(cpc)
    /\ childPc' = IF EmptyPathRejected(detachedPath) THEN "failed" ELSE "sleep"

\* 574-576
ChildSleep ==
    /\ UNCHANGED <<createVars, commandVars, cleanupEnv, cleanupLocals, detachedPath, logFile>>
    /\ childPc = "sleep"
    /\ ChildRuns(cpc)
    /\ clog' = Append(clog, CEntry("child", "sleep", <<>>, DetachedDelaySeconds, TRUE))
    /\ childPc' = "remove"

\* 578-589: the removal with a background context; a failure is written to
\* ko-cleanup-error.log
ChildRemove ==
    /\ UNCHANGED <<createVars, commandVars, cleanupLocals, detachedPath>>
    /\ childPc = "remove"
    /\ ChildRuns(cpc)
    /\ \E envOk \in BOOLEAN :
         LET ok == GitRemoveOk(envOk, FALSE, detachedPath) IN
           /\ clog' = Append(clog, CEntry("child", "git worktree remove",
                                          detachedPath, 0, ok))
           /\ worktrees' = IF ok THEN worktrees \ {detachedPath} ELSE worktrees
           /\ logFile' = (logFile \/ ~ok)
           /\ childPc' = IF ok THEN "done" ELSE "failed"
    /\ UNCHANGED <<args, cwd, windows, ownWindow, hupPending>>

----------------------------------------------------------------------------
(* switchToWorktree, src/cmd/switch.go 33-141.                             *)

\* A lookup that treats absence as a fault, as switchTo and close do.
AbsenceIsAnError(listOk, name) ==
    LET m == MatchingWindows(name) IN
      IF ~listOk THEN [index |-> <<>>, name |-> <<>>, err |-> "failed to list tmux windows"]
      ELSE IF m = <<>> THEN [index |-> <<>>, name |-> <<>>, err |-> "no tmux window found"]
      ELSE [index |-> <<m[1].index>>, name |-> m[1].name, err |-> ""]

\* WindowBinder.findByWorktree (findWindowByWorktree): it lists the windows
\* and returns the index and the name of the first one whose name ends with
\* "|" + name; empty values and no error when there is none.  <<>> is "".
findWindowByWorktree(listOk, name) ==
    LET m == MatchingWindows(name) IN
      IF ~listOk THEN [index |-> <<>>, name |-> <<>>, err |-> "failed to list tmux windows"]
      ELSE IF m = <<>> THEN [index |-> <<>>, name |-> <<>>, err |-> ""]
      ELSE [index |-> <<m[1].index>>, name |-> m[1].name, err |-> ""]

\* WindowBinder.exists (tmux.WindowExists, called at switch.go 65): it
\* wraps findByWorktree, which lists the windows and matches on the suffix
\* "|" + name; no match is (false, nil).
WindowExists(listOk, name) ==
    LET r == findWindowByWorktree(listOk, name) IN
      [exists |-> r.err = "" /\ r.index # <<>>, err |-> r.err]

\* WindowBinder.switchTo (tmux.SwitchToWindow, called at switch.go 75): it
\* finds the window as findByWorktree does and selects it; it fails when
\* there is none.
\* A switchTo that treats absence as findByWorktree does: nothing to do.
SwitchAbsenceIsSilent(listOk, selectOk, name) ==
    LET r == findWindowByWorktree(listOk, name) IN
      IF r.err # "" THEN [index |-> <<>>, issued |-> FALSE, err |-> r.err]
      ELSE IF r.index = <<>> THEN [index |-> <<>>, issued |-> FALSE, err |-> ""]
      ELSE [index |-> r.index, issued |-> TRUE,
            err |-> IF selectOk THEN "" ELSE "failed to switch to tmux window"]

\* issued: tmux select-window -t index was run.  The message for a missing
\* window is the one session_test.go 315 expects.
SwitchToWindow(listOk, selectOk, name) ==
    LET r == findWindowByWorktree(listOk, name) IN
      IF r.err # "" THEN [index |-> <<>>, issued |-> FALSE, err |-> r.err]
      ELSE IF r.index = <<>>
        THEN [index |-> <<>>, issued |-> FALSE,
              err |-> "no tmux window found for worktree:"]
      ELSE [index |-> r.index, issued |-> TRUE,
            err |-> IF selectOk THEN "" ELSE "failed to switch to tmux window"]

\* The tmux commands of one SwitchToWindow call.
SwitchToCommands(listOk, r) ==
    <<CEntry("parent", "list-windows", <<>>, 0, listOk)>>
        \o (IF r.issued
              THEN <<CEntry("parent", "select-window", <<>>, r.index[1], r.err = "")>>
              ELSE <<>>)

\* The locals of runCleanup and CloseWindow that runNew and switchToWorktree
\* do not have.
cleanupOnly ==
    <<retTo, worktreeExists, isInTargetWorktree, tmuxWindowClosed, windowIndex>>

\* git.GetMainRepoRootOrCwd (worktree.go 125-137): the main repository's root
\* inside a worktree, the current directory anywhere else.
GetMainRepoRootOrCwd(dir) ==
    IF IsInWorktree(dir) THEN RepoRoot ELSE dir

\* CreateSessionWithContext is called: its locals are fresh.
CallCreate ==
    /\ pc' = "start"
    /\ winPanes' = <<>>
    /\ winActive' = 0
    /\ paneKeys' = [p \in 0..NumPaneCommands |-> <<>>]
    /\ i' = 0
    /\ sendIdx' = 0
    /\ paneBaseIndex' = 0
    /\ err' = ""
    /\ UNCHANGED <<cfg, inTmux, fs, tmuxBase, log>>

\* 35-37
SwitchValidate ==
    /\ cpc = "swValidate"
    /\ LET e == ValidateWorktreeName(worktreeName) IN
         /\ nameErr' = e
         /\ IF e = ""
              THEN cpc' = "swCheckTmux" /\ cerr' = cerr
              ELSE cpc' = ReturnPlace /\ cerr' = "invalid worktree name"
    /\ UNCHANGED <<createVars, quiet, mainRepoRoot, notifying, calls, wrapper, finds, listModel,
                   cleanupEnv, childVars, clog, cleanupOnly,
                   worktreeName, worktreePath, sigHandler, ctxCancelled>>

\* 40-42
SwitchCheckTmux ==
    /\ cpc = "swCheckTmux"
    /\ IF inTmux
         THEN cpc' = "swCheckRepo" /\ cerr' = cerr
         ELSE cpc' = ReturnPlace /\ cerr' = "not in a tmux session"
    /\ UNCHANGED <<createVars, commandVars, cleanupEnv, childVars, clog, cleanupOnly,
                   worktreeName, worktreePath, sigHandler, ctxCancelled>>

\* 45-47
SwitchCheckRepo ==
    /\ cpc = "swCheckRepo"
    /\ clog' = Append(clog, CEntry("parent", "git rev-parse", cwd, 0, IsGitRepo(cwd)))
    /\ IF IsGitRepo(cwd)
         THEN cpc' = "swRepoRoot" /\ cerr' = cerr
         ELSE cpc' = ReturnPlace /\ cerr' = "not in a git repository"
    /\ UNCHANGED <<createVars, commandVars, cleanupEnv, childVars, cleanupOnly,
                   worktreeName, worktreePath, sigHandler, ctxCancelled>>

\* 50-53
SwitchRepoRoot ==
    /\ cpc = "swRepoRoot"
    /\ \E ok \in BOOLEAN :
         /\ clog' = Append(clog, CEntry("parent", "git rev-parse", cwd, 0, ok))
         /\ IF ok
              THEN /\ mainRepoRoot' = GetMainRepoRootOrCwd(cwd)
                   /\ cpc' = "swStat"
                   /\ cerr' = cerr
              ELSE /\ mainRepoRoot' = mainRepoRoot
                   /\ cpc' = ReturnPlace
                   /\ cerr' = "failed to get repository root"
    /\ UNCHANGED <<createVars, quiet, notifying, calls, wrapper, finds, nameErr, listModel, cleanupEnv, childVars, cleanupOnly,
                   worktreeName, worktreePath, sigHandler, ctxCancelled>>

\* 56-62: the worktree must exist
SwitchStat ==
    /\ cpc = "swStat"
    /\ worktreePath' = JoinWorktreePath(mainRepoRoot, worktreeName)
    /\ IF worktreePath' \in worktrees
         THEN cpc' = "swWindowExists" /\ cerr' = cerr
         ELSE cpc' = ReturnPlace /\ cerr' = "worktree does not exist"
    /\ UNCHANGED <<createVars, commandVars, cleanupEnv, childVars, clog, cleanupOnly,
                   worktreeName, sigHandler, ctxCancelled>>

\* 70-85: an existing window is only switched to, a missing one is created
AfterWindowExistsAlwaysCreates(exists) ==
    "swLoadConfig"

AfterWindowExists(exists) ==
    IF exists THEN "swSwitchTo" ELSE "swLoadConfig"

\* 65-68: tmux.WindowExists(worktreeName)
SwitchWindowExists ==
    /\ cpc = "swWindowExists"
    /\ \E listOk \in BOOLEAN :
         LET r == WindowExists(listOk, worktreeName) IN
           /\ clog' = Append(clog, CEntry("parent", "list-windows", <<>>, 0, listOk))
           /\ IF r.err # ""
                THEN cpc' = ReturnPlace /\ cerr' = "failed to check for existing tmux window"
                ELSE /\ cpc' = AfterWindowExists(r.exists)
                     /\ cerr' = cerr
    /\ UNCHANGED <<createVars, commandVars, cleanupEnv, childVars, cleanupOnly,
                   worktreeName, worktreePath, sigHandler, ctxCancelled>>

\* 70-79: tmux.SwitchToWindow(worktreeName) and return
SwitchToExisting ==
    /\ cpc = "swSwitchTo"
    /\ \E listOk, selectOk \in BOOLEAN :
         LET r == SwitchToWindow(listOk, selectOk, worktreeName) IN
           /\ clog' = clog \o SwitchToCommands(listOk, r)
           /\ cerr' = IF r.err = "" THEN "" ELSE "failed to switch to tmux window"
    /\ cpc' = ReturnPlace
    /\ UNCHANGED <<createVars, commandVars, cleanupEnv, childVars, cleanupOnly,
                   worktreeName, worktreePath, sigHandler, ctxCancelled>>

\* 87-99: config.ConfigExists and config.Load
SwitchLoadConfig ==
    /\ cpc = "swLoadConfig"
    /\ \E r \in {"ok", "no .koconfig found", "failed to load config"} :
         IF r = "ok"
           THEN cpc' = "swSetupSignals" /\ cerr' = cerr
           ELSE cpc' = ReturnPlace /\ cerr' = r
    /\ UNCHANGED <<createVars, commandVars, cleanupEnv, childVars, clog, cleanupOnly,
                   worktreeName, worktreePath, sigHandler, ctxCancelled>>

\* 102-124: the context and, unless quiet, the signal goroutine and the
\* deferred function that waits for it
SwitchSetupSignals ==
    /\ cpc = "swSetupSignals"
    /\ sigHandler' = IF quiet THEN sigHandler ELSE "listening"
    /\ notifying' = IF quiet THEN notifying ELSE TRUE
    /\ cpc' = "swRepoName"
    /\ UNCHANGED <<createVars, quiet, mainRepoRoot, calls, wrapper, finds, nameErr, listModel, cleanupEnv, childVars, clog, cleanupOnly,
                   worktreeName, worktreePath, ctxCancelled, cerr>>

\* 127-130: git.GetRepoName
SwitchRepoName ==
    /\ cpc = "swRepoName"
    /\ \E ok \in BOOLEAN :
         /\ clog' = Append(clog, CEntry("parent", "git rev-parse", cwd, 0, ok))
         /\ IF ok
              THEN cpc' = "swCreate" /\ cerr' = cerr
              ELSE cpc' = ReturnPlace /\ cerr' = "failed to get repository name"
    /\ UNCHANGED <<createVars, commandVars, cleanupEnv, childVars, cleanupOnly,
                   worktreeName, worktreePath, sigHandler, ctxCancelled>>

\* 133: tmux.CreateSessionWithContext(ctx, repoName, worktreeName, worktreePath, cfg)
SwitchCreate ==
    /\ cpc = "swCreate"
    /\ pc = "idle"
    /\ CallCreate
    /\ cpc' = "swInCreate"
    /\ UNCHANGED <<cleanupEnv, childVars, clog, commandVars, cleanupOnly, worktreeName,
                   worktreePath, sigHandler, ctxCancelled, cerr>>

\* 133-140: Create has returned
SwitchCreateReturn ==
    /\ cpc = "swInCreate"
    /\ pc \in {"done", "failed"}
    /\ cerr' = IF pc = "failed" THEN "failed to create tmux session" ELSE ""
    /\ cpc' = ReturnPlace
    /\ pc' = "idle"
    /\ UNCHANGED <<cfg, inTmux, fs, tmuxBase, winPanes, winActive, paneKeys, i, sendIdx,
                   paneBaseIndex, err, log>>
    /\ UNCHANGED <<cleanupEnv, childVars, clog, commandVars, cleanupOnly, worktreeName,
                   worktreePath, sigHandler, ctxCancelled>>

----------------------------------------------------------------------------
(* runNew, src/cmd/new.go 31-125.                                          *)

\* runNew registers no deferred wait for its signal goroutine (46-50): a
\* return statement returns at once.
NewReturns(e) ==
    /\ cpc' = "returned"
    /\ cerr' = e

\* 32-37
NewValidate ==
    /\ cpc = "newValidate"
    /\ worktreeName' = args[1]
    /\ LET e == ValidateWorktreeName(worktreeName') IN
         /\ nameErr' = e
         /\ IF e = ""
              THEN cpc' = "newSetupSignals" /\ cerr' = cerr
              ELSE NewReturns("invalid worktree name")
    /\ UNCHANGED <<createVars, quiet, mainRepoRoot, notifying, calls, wrapper, finds, listModel,
                   cleanupEnv, childVars, clog, cleanupOnly,
                   worktreePath, sigHandler, ctxCancelled>>

\* 40-50: the context, signal.Notify and the signal goroutine
NewSetupSignals ==
    /\ cpc = "newSetupSignals"
    /\ sigHandler' = "listening"
    /\ notifying' = TRUE
    /\ cpc' = "newCheckRepo"
    /\ UNCHANGED <<createVars, quiet, mainRepoRoot, calls, wrapper, finds, nameErr, listModel, cleanupEnv, childVars, clog, cleanupOnly,
                   worktreeName, worktreePath, ctxCancelled, cerr>>

\* 53-55
NewCheckRepo ==
    /\ cpc = "newCheckRepo"
    /\ clog' = Append(clog, CEntry("parent", "git rev-parse", cwd, 0, IsGitRepo(cwd)))
    /\ IF IsGitRepo(cwd)
         THEN cpc' = "newLoadConfig" /\ cerr' = cerr
         ELSE NewReturns("not in a git repository")
    /\ UNCHANGED <<createVars, commandVars, cleanupEnv, childVars, cleanupOnly,
                   worktreeName, worktreePath, sigHandler, ctxCancelled>>

\* 58-70: config.ConfigExists and config.Load
NewLoadConfig ==
    /\ cpc = "newLoadConfig"
    /\ \E r \in {"ok", "no .koconfig found", "failed to load config"} :
         IF r = "ok"
           THEN cpc' = "newRepoRoot" /\ cerr' = cerr
           ELSE NewReturns(r)
    /\ UNCHANGED <<createVars, commandVars, cleanupEnv, childVars, clog, cleanupOnly,
                   worktreeName, worktreePath, sigHandler, ctxCancelled>>

\* 73-84: git.GetMainRepoRoot inside a worktree, os.Getwd anywhere else
NewRepoRoot ==
    /\ cpc = "newRepoRoot"
    /\ \E ok \in BOOLEAN :
         /\ clog' = Append(clog, CEntry("parent", "git rev-parse", cwd, 0, ok))
         /\ IF ok
              THEN /\ mainRepoRoot' = IF IsInWorktree(cwd) THEN RepoRoot ELSE cwd
                   /\ cpc' = "newStatSetup"
                   /\ cerr' = cerr
              ELSE /\ mainRepoRoot' = mainRepoRoot
                   /\ NewReturns("failed to get main repository root")
    /\ UNCHANGED <<createVars, quiet, notifying, calls, wrapper, finds, nameErr, listModel, cleanupEnv, childVars, cleanupOnly,
                   worktreeName, worktreePath, sigHandler, ctxCancelled>>

\* 87-98: the setup script must exist below mainRepoRoot; os.MkdirAll of
\* mainRepoRoot/.ko
NewStatSetup ==
    /\ cpc = "newStatSetup"
    /\ \E found \in (IF mainRepoRoot = RepoRoot THEN {fs.inMainRepo} ELSE BOOLEAN),
          mkdirOk \in BOOLEAN :
         IF cfg.SetupScript # "" /\ ~found
           THEN NewReturns("setup script not found")
           ELSE IF ~mkdirOk
             THEN NewReturns("failed to create .ko directory")
             ELSE cpc' = "newStatWorktree" /\ cerr' = cerr
    /\ UNCHANGED <<createVars, commandVars, cleanupEnv, childVars, clog, cleanupOnly,
                   worktreeName, worktreePath, sigHandler, ctxCancelled>>

\* 101-104: the worktree must not exist yet
NewStatWorktree ==
    /\ cpc = "newStatWorktree"
    /\ worktreePath' = JoinWorktreePath(mainRepoRoot, worktreeName)
    /\ IF worktreePath' \in worktrees
         THEN NewReturns("worktree already exists")
         ELSE cpc' = "newCreateWorktree" /\ cerr' = cerr
    /\ UNCHANGED <<createVars, commandVars, cleanupEnv, childVars, clog, cleanupOnly,
                   worktreeName, sigHandler, ctxCancelled>>

\* git worktree add path (git.CreateWorktreeWithContext, worktree.go 41-51)
GitAddOk(envOk, cancelled, path) ==
    envOk /\ ~cancelled /\ path \notin worktrees

\* 107-110
NewCreateWorktree ==
    /\ cpc = "newCreateWorktree"
    /\ \E envOk \in BOOLEAN :
         LET ok == GitAddOk(envOk, ctxCancelled, worktreePath) IN
           /\ clog' = Append(clog, CEntry("parent", "git worktree add", worktreePath, 0, ok))
           /\ worktrees' = IF ok THEN worktrees \cup {worktreePath} ELSE worktrees
           /\ IF ok
                THEN cpc' = "newRepoName" /\ cerr' = cerr
                ELSE NewReturns("failed to create worktree")
    /\ UNCHANGED <<createVars, commandVars, args, cwd, windows, ownWindow, hupPending,
                   childVars, cleanupOnly, worktreeName, worktreePath, sigHandler,
                   ctxCancelled>>

\* 113-116: git.GetRepoName
NewRepoName ==
    /\ cpc = "newRepoName"
    /\ \E ok \in BOOLEAN :
         /\ clog' = Append(clog, CEntry("parent", "git rev-parse", cwd, 0, ok))
         /\ IF ok
              THEN cpc' = "newCreate" /\ cerr' = cerr
              ELSE NewReturns("failed to get repository name")
    /\ UNCHANGED <<createVars, commandVars, cleanupEnv, childVars, cleanupOnly,
                   worktreeName, worktreePath, sigHandler, ctxCancelled>>

\* 119: tmux.CreateSessionWithContext(ctx, repoName, worktreeName, worktreePath, cfg)
NewCreate ==
    /\ cpc = "newCreate"
    /\ pc = "idle"
    /\ CallCreate
    /\ cpc' = "newInCreate"
    /\ UNCHANGED <<cleanupEnv, childVars, clog, commandVars, cleanupOnly, worktreeName,
                   worktreePath, sigHandler, ctxCancelled, cerr>>

\* 119-124: Create has returned
NewCreateReturn ==
    /\ cpc = "newInCreate"
    /\ pc \in {"done", "failed"}
    /\ NewReturns(IF pc = "failed" THEN "failed to create tmux session" ELSE "")
    /\ pc' = "idle"
    /\ UNCHANGED <<cfg, inTmux, fs, tmuxBase, winPanes, winActive, paneKeys, i, sendIdx,
                   paneBaseIndex, err, log>>
    /\ UNCHANGED <<cleanupEnv, childVars, clog, commandVars, cleanupOnly, worktreeName,
                   worktreePath, sigHandler, ctxCancelled>>

----------------------------------------------------------------------------
(* Initial states.                                                         *)

\* No command is running; the worktree name is left to the caller.
CleanupIdle ==
    /\ quiet = FALSE
    /\ notifying = FALSE
    /\ mainRepoRoot = <<>>
    /\ args = <<>>
    /\ cwd = RepoRoot
    /\ worktrees = {}
    /\ hupPending = FALSE
    /\ cpc = "idle"
    /\ retTo = ""
    /\ worktreePath = <<>>
    /\ worktreeExists = FALSE
    /\ isInTargetWorktree = FALSE
    /\ tmuxWindowClosed = FALSE
    /\ windowIndex = <<>>
    /\ sigHandler = "none"
    /\ ctxCancelled = FALSE
    /\ cerr = ""
    /\ childPc = "none"
    /\ detachedPath = <<>>
    /\ logFile = FALSE
    /\ clog = <<>>

\* No CreateSessionWithContext is running.
CreateIdle ==
    /\ cfg = [SetupScript |-> "", PaneCommands |-> <<>>]
    /\ fs = [inWorktree |-> FALSE, mainRootOk |-> FALSE, inMainRepo |-> FALSE,
             copyOk |-> FALSE]
    /\ tmuxBase = 0
    /\ winPanes = <<>>
    /\ winActive = 0
    /\ paneKeys = <<>>
    /\ pc = "idle"
    /\ i = 0
    /\ sendIdx = 0
    /\ paneBaseIndex = 0
    /\ err = ""
    /\ log = <<>>

\* The names a user may type.
NameInputs ==
    {Wt, Wx, <<".", ".">>, <<"a", "/", "b">>}

\* The directories the command may be run from: the repository root, a
\* directory below it, a worktree, a directory below a worktree, and a
\* directory outside the repository.
Cwds ==
    {RepoRoot, RepoRoot \o <<SrcDir>>, WorktreePathOf(Wt),
     WorktreePathOf(Wt) \o <<SrcDir>>, <<TmpDir>>}

\* The session: the window of a shell, maybe a window another repository
\* made for a worktree of its own that is also called wt, and maybe the
\* windows made for the worktrees wt and x of this repository.  list-windows
\* prints the windows in the order of their indices.
OtherRepo ==
    <<"o", "t", "h", "e", "r">>

ShellWindow ==
    [index |-> 1, name |-> <<"z", "s", "h">>, panes |-> {1}]

OtherWtWindow ==
    [index |-> 2, name |-> WindowName(OtherRepo, Wt), panes |-> {5}]

WtWindow ==
    [index |-> 3, name |-> WindowName(RepoDir, Wt), panes |-> {2, 3}]

WxWindow ==
    [index |-> 4, name |-> WindowName(RepoDir, Wx), panes |-> {4}]

Sessions ==
    {<<ShellWindow>>, <<ShellWindow, WtWindow>>, <<ShellWindow, WxWindow>>,
     <<ShellWindow, WtWindow, WxWindow>>, <<ShellWindow, OtherWtWindow>>,
     <<ShellWindow, OtherWtWindow, WtWindow>>,
     <<ShellWindow, OtherWtWindow, WtWindow, WxWindow>>}

\* The repository, the directory the command is run from and the session.
Environment(registered) ==
    /\ mainRepoRoot = <<>>
    /\ inTmux \in BOOLEAN
    /\ worktrees \in SUBSET registered
    /\ cwd \in {d \in Cwds : IsPrefix(WorktreePathOf(Wt), d) => WorktreePathOf(Wt) \in worktrees}
    /\ windows \in (IF inTmux THEN Sessions ELSE {<<>>})
    /\ ownWindow \in (IF inTmux THEN WindowIndices ELSE {0})
    /\ hupPending = FALSE

CleanupEnvironment ==
    /\ Environment({WorktreePathOf(Wt), WorktreePathOf(Wx)})
    /\ childPc = "none"
    /\ detachedPath = <<>>
    /\ logFile = FALSE
    /\ clog = <<>>

\* "ko cleanup [name]" is started.
InitCleanup ==
    /\ CreateIdle
    /\ CleanupEnvironment
    /\ quiet = FALSE
    /\ notifying = FALSE
    /\ calls = NoCalls
    /\ wrapper = NoWrapper
    /\ finds = NoFinds
    /\ nameErr = ""
    /\ listModel = NoList
    /\ args \in {<<>>} \cup {<<n>> : n \in NameInputs}
    /\ cpc = "start"
    /\ retTo = ""
    /\ worktreeName = <<>>
    /\ worktreePath = <<>>
    /\ worktreeExists = FALSE
    /\ isInTargetWorktree = FALSE
    /\ tmuxWindowClosed = FALSE
    /\ windowIndex = <<>>
    /\ sigHandler = "none"
    /\ ctxCancelled = FALSE
    /\ cerr = ""

\* runCleanup 369-516.  spawnDetachedCleanup is not among the actions: the
\* position "spawn" is never reached (DetachedPathNeverTaken).
NextCleanup ==
    \/ ResolveName
    \/ Validate
    \/ SetupSignals
    \/ CheckRepo
    \/ StatWorktree
    \/ Decide
    \/ SyncClose
    \/ CloseListWindows
    \/ CloseKillWindow
    \/ SyncSleep
    \/ SyncRemove
    \/ DeferredStop
    \/ DeferredWait
    \/ Signal
    \/ Hangup

SpecCleanup ==
    InitCleanup /\ [][NextCleanup]_vars

\* spawnDetachedCleanup(worktreeName, worktreePath) is called, as line 471
\* calls it, with a validated name and the absolute path of its worktree,
\* in a tmux session, from a directory inside that worktree.
InitSpawn ==
    /\ CreateIdle
    /\ CleanupEnvironment
    /\ quiet = FALSE
    /\ notifying = TRUE
    /\ calls = NoCalls
    /\ wrapper = NoWrapper
    /\ finds = NoFinds
    /\ nameErr = ""
    /\ listModel = NoList
    /\ inTmux
    /\ args \in {<<>>} \cup {<<n>> : n \in {Wt}}
    /\ cwd \in {WorktreePathOf(Wt), WorktreePathOf(Wt) \o <<SrcDir>>}
    /\ cpc = "spawn"
    /\ retTo = ""
    /\ worktreeName = Wt
    /\ worktreePath = WorktreePathOf(Wt)
    /\ worktreeExists \in BOOLEAN
    /\ isInTargetWorktree = TRUE
    /\ tmuxWindowClosed = FALSE
    /\ windowIndex = <<>>
    /\ sigHandler = "listening"
    /\ ctxCancelled = FALSE
    /\ cerr = ""

NextSpawn ==
    \/ SpawnCloseWindow
    \/ CloseListWindows
    \/ CloseKillWindow
    \/ SpawnExecutable
    \/ SpawnStart
    \/ DeferredStop
    \/ DeferredWait
    \/ Signal
    \/ Hangup
    \/ ChildStart
    \/ ChildSleep
    \/ ChildRemove

SpecSpawn ==
    InitSpawn /\ [][NextSpawn]_vars

----------------------------------------------------------------------------
(* ValidateWorktreeName on its own: the command is at the call of line 408 *)
(* with a name drawn from the strings over a small alphabet.               *)

\* Letters of both cases (those of the device name NUL among them), a digit,
\* the dash and the underscore, the window-name separator, the dot, the path
\* separators and a control character.
NameAlphabet ==
    {"a", "n", "u", "l", "N", "9", "-", "_", "|", ".", "/", "\\", "<TAB>"}

RECURSIVE NamesOfLength(_)
NamesOfLength(n) ==
    IF n = 0 THEN {<<>>}
    ELSE {Append(t, c) : t \in NamesOfLength(n - 1), c \in NameAlphabet}

BoundedNames ==
    UNION {NamesOfLength(n) : n \in 0..MaxNameChars}

\* A name of n letters.
LongName(n) ==
    [k \in 1..n |-> "a"]

\* Names too long to enumerate: the longest name allowed and the shortest
\* one that is too long, device names of four characters in either case, and
\* names with the remaining control characters.
ListedNames ==
    {LongName(MaxNameLen), LongName(MaxNameLen + 1),
     <<"c", "o", "m", "1">>, <<"L", "P", "T", "9">>, <<"C", "o", "M", "5">>,
     <<"l", "p", "t", "0">>, <<"c", "o", "m", "1", "0">>,
     <<"a", "<LF>", "b">>, <<"<CR>", "a">>, <<"a", "<NUL>">>, <<"x">>, <<"a", ".", ".", "b", "x">>,
     <<".", ".", "/", "e", "t", "c">>, <<"a", "/", ".", ".", "/", "e", "t", "c">>}

NameInputsOfValidate ==
    BoundedNames \cup ListedNames

InitValidate ==
    /\ CreateIdle
    /\ quiet = FALSE
    /\ notifying = FALSE
    /\ calls = NoCalls
    /\ wrapper = NoWrapper
    /\ finds = NoFinds
    /\ nameErr = ""
    /\ listModel = NoList
    /\ mainRepoRoot = <<>>
    /\ inTmux \in BOOLEAN
    /\ worktreeName \in NameInputsOfValidate
    /\ args = <<worktreeName>>
    /\ cwd = RepoRoot
    /\ worktrees = {}
    /\ windows = <<>>
    /\ ownWindow = 0
    /\ hupPending = FALSE
    /\ cpc = "validate"
    /\ retTo = ""
    /\ worktreePath = <<>>
    /\ worktreeExists = FALSE
    /\ isInTargetWorktree = FALSE
    /\ tmuxWindowClosed = FALSE
    /\ windowIndex = <<>>
    /\ sigHandler = "none"
    /\ ctxCancelled = FALSE
    /\ cerr = ""
    /\ childPc = "none"
    /\ detachedPath = <<>>
    /\ logFile = FALSE
    /\ clog = <<>>

NextValidate ==
    Validate

SpecValidate ==
    InitValidate /\ [][NextValidate]_vars

\* ValidateWorktreeName returned nil for worktreeName.
NameAccepted ==
    cpc = "setupSignals"

\* C12: no name ValidateWorktreeName accepts contains the separator "|", so
\* the window repo|a made for an accepted name a is never matched by the
\* suffix "|" + b that finds the window of another accepted name b.
C12_AcceptedNamesHoldNoSeparator ==
    NameAccepted =>
        /\ ~ContainsAny(worktreeName, {"|"})
        /\ \A b \in BoundedNames :
               (ValidateWorktreeName(b) = "" /\ b # worktreeName)
                   => ~HasSuffix(WindowName(RepoDir, worktreeName), <<"|">> \o b)

----------------------------------------------------------------------------
(* CreateSessionWithContext is called.                                     *)

Configs ==
    { [SetupScript |-> s, PaneCommands |-> [k \in 1..n |-> k - 1]] :
        s \in {"", "setup.sh"}, n \in 0..MaxCmds }

FsCases ==
    [inWorktree : BOOLEAN, mainRootOk : BOOLEAN, inMainRepo : BOOLEAN, copyOk : BOOLEAN]

InitCreate ==
    /\ cfg \in Configs
    /\ inTmux \in BOOLEAN
    /\ fs \in FsCases
    /\ tmuxBase \in 0..MaxBase
    /\ winPanes = <<>>
    /\ winActive = 0
    /\ paneKeys = [p \in 0..NumPaneCommands |-> <<>>]
    /\ pc = "start"
    /\ i = 0
    /\ sendIdx = 0
    /\ paneBaseIndex = 0
    /\ err = ""
    /\ log = <<>>
    /\ CleanupIdle
    /\ calls = NoCalls
    /\ wrapper = NoWrapper
    /\ finds = NoFinds
    /\ nameErr = ""
    /\ listModel = NoList
    /\ worktreeName = Wt
    /\ windows \in (IF inTmux THEN Sessions ELSE {<<>>})
    /\ ownWindow = (IF inTmux THEN ShellWindow.index ELSE 0)

NextCreate ==
    \/ CheckInTmux
    \/ EnsureSetupScript
    \/ GetPaneBaseIndex
    \/ NewWindow
    \/ SplitFirst
    \/ SelectTarget
    \/ SplitBelow
    \/ SendSetup
    \/ SendPaneCommand
    \/ FocusFirst

SpecCreate ==
    InitCreate /\ [][NextCreate]_vars

----------------------------------------------------------------------------
(* Two CreateSessionWithContext calls, for two worktrees of the            *)
(* repository, running side by side in one tmux session (two "ko new" in   *)
(* two panes of the shell's window).  Both read the same .koconfig.  The   *)
(* tmux commands of session.go carry no window: split-window has no target *)
(* at all, select-pane and send-keys name a pane index only, so each acts  *)
(* on the window that is the session's current one when tmux runs it, and  *)
(* new-window makes the window it creates the current one.  The server     *)
(* runs one command at a time.  Window 0 is the shell's, window c the one  *)
(* call c made; the pane <<c, k>> is the k-th pane call c made.            *)

CallIds ==
    {1, 2}

\* Both calls have read pane-base-index and are about to run new-window.
TwoCalls ==
    [cur     |-> 0,
     win     |-> [w \in 0..2 |-> IF w = 0 THEN [panes |-> <<<<0, 0>>>>, active |-> 1]
                                          ELSE [panes |-> <<>>, active |-> 0]],
     sent    |-> {},
     pc      |-> [c \in CallIds |-> "newWindow"],
     i       |-> [c \in CallIds |-> 0],
     sendIdx |-> [c \in CallIds |-> 0]]

CurrentWindow ==
    calls.win[calls.cur]

\* The position in the current window of the pane a pane index names.
CurrentPos(idx) ==
    idx - tmuxBase + 1

CurrentHasPane(idx) ==
    CurrentPos(idx) \in 1..Len(CurrentWindow.panes)

\* The panes call c has made so far.
MadeBy(c) ==
    UNION {{CurrentPanes[k] : k \in {j \in 1..Len(CurrentPanes) : CurrentPanes[j][1] = c}} :
              CurrentPanes \in {calls.win[w].panes : w \in 0..2}}

\* 129-138: new-window makes call c's window and makes it the current one
TwoNewWindow ==
    /\ \E c \in CallIds :
         /\ calls.pc[c] = "newWindow"
         /\ calls' = [calls EXCEPT !.cur = c,
                                   !.win[c] = [panes |-> <<<<c, 0>>>>, active |-> 1],
                                   !.pc[c] = AfterNewWindow]
    /\ UNCHANGED <<createVars, cleanupEnv, cleanupLocals, childVars, clog, quiet,
                   mainRepoRoot, notifying, wrapper, finds, nameErr, listModel>>

\* 151-155 and 171-174: split-window splits the active pane of the current
\* window
TwoSplit ==
    /\ \E c \in CallIds :
         /\ calls.pc[c] \in {"splitFirst", "splitBelow"}
         /\ LET w == calls.cur
                k == IF calls.pc[c] = "splitFirst" THEN 1 ELSE calls.i[c] + 1 IN
              calls' = [calls EXCEPT
                 !.win[w] = [panes  |-> InsertAfter(@.panes, @.active,
                                                     <<c, Cardinality(MadeBy(c))>>),
                             active |-> @.active + 1],
                 !.i[c] = k,
                 !.pc[c] = IF LoopAgain(k) THEN "selectTarget" ELSE AfterSplits]
    /\ UNCHANGED <<createVars, cleanupEnv, cleanupLocals, childVars, clog, quiet,
                   mainRepoRoot, notifying, wrapper, finds, nameErr, listModel>>

\* 159-170 and 197-201: select-pane -t index, in the current window
TwoSelect ==
    /\ \E c \in CallIds :
         /\ calls.pc[c] \in {"selectTarget", "focus"}
         /\ LET w == calls.cur
                idx == IF calls.pc[c] = "selectTarget"
                         THEN SplitTarget(tmuxBase, calls.i[c]) ELSE tmuxBase
                ok == CurrentHasPane(idx)
                next == IF calls.pc[c] = "selectTarget" THEN "splitBelow" ELSE "done" IN
              calls' = [calls EXCEPT
                 !.win[w].active = IF ok THEN CurrentPos(idx) ELSE @,
                 !.pc[c] = OnError(ok, next)]
    /\ UNCHANGED <<createVars, cleanupEnv, cleanupLocals, childVars, clog, quiet,
                   mainRepoRoot, notifying, wrapper, finds, nameErr, listModel>>

\* 179-195: send-keys -t index, in the current window
TwoSendKeys ==
    /\ \E c \in CallIds :
         /\ calls.pc[c] \in {"sendSetup", "sendPaneCommands"}
         /\ LET setup == calls.pc[c] = "sendSetup"
                idx == IF setup THEN tmuxBase ELSE SendTarget(tmuxBase, calls.sendIdx[c])
                key == IF setup THEN SetupKey ELSE CmdKey(cfg.PaneCommands[calls.sendIdx[c] + 1])
                ok == CurrentHasPane(idx)
                n == IF setup THEN 0 ELSE calls.sendIdx[c] + 1
                next == IF setup THEN AfterSetup
                        ELSE IF n < NumPaneCommands THEN "sendPaneCommands" ELSE "focus" IN
              calls' = [calls EXCEPT
                 !.sent = IF ok THEN @ \cup {[pane |-> CurrentWindow.panes[CurrentPos(idx)],
                                              from |-> c, key |-> key]}
                                ELSE @,
                 !.sendIdx[c] = IF ok THEN n ELSE @,
                 !.pc[c] = OnError(ok, next)]
    /\ UNCHANGED <<createVars, cleanupEnv, cleanupLocals, childVars, clog, quiet,
                   mainRepoRoot, notifying, wrapper, finds, nameErr, listModel>>

InitTwoCalls ==
    /\ cfg \in Configs
    /\ inTmux = TRUE
    /\ fs = [inWorktree |-> TRUE, mainRootOk |-> TRUE, inMainRepo |-> TRUE, copyOk |-> TRUE]
    /\ tmuxBase \in 0..MaxBase
    /\ winPanes = <<>>
    /\ winActive = 0
    /\ paneKeys = <<>>
    /\ pc = "idle"
    /\ i = 0
    /\ sendIdx = 0
    /\ paneBaseIndex = tmuxBase
    /\ err = ""
    /\ log = <<>>
    /\ CleanupIdle
    /\ calls = TwoCalls
    /\ wrapper = NoWrapper
    /\ finds = NoFinds
    /\ nameErr = ""
    /\ listModel = NoList
    /\ worktreeName = <<>>
    /\ windows = <<>>
    /\ ownWindow = 0

NextTwoCalls ==
    \/ TwoNewWindow
    \/ TwoSplit
    \/ TwoSelect
    \/ TwoSendKeys

SpecTwoCalls ==
    InitTwoCalls /\ [][NextTwoCalls]_vars

----------------------------------------------------------------------------
(* The subprocess wrappers that take a context: runTmuxCmdWithContext,     *)
(* sendKeysWithContext, getPaneBaseIndex and the new-window step of        *)
(* CreateSessionWithContext (session.go 131-138, 262-291) and              *)
(* git.CreateWorktreeWithContext and git.RemoveWorktreeWithContext         *)
(* (worktree.go 41-69), each called once with a context that is live,      *)
(* cancelled or past its deadline.  exec.CommandContext does not start the *)
(* command when the context is done already and Run returns ctx.Err();     *)
(* a context that becomes done while the command runs kills it, and Run    *)
(* returns the error of the killed process.                                *)

TmuxWrappers ==
    {"runTmuxCmdWithContext", "sendKeysWithContext", "newWindow"}

GitWrappers ==
    {"CreateWorktreeWithContext", "RemoveWorktreeWithContext"}

Wrappers ==
    TmuxWrappers \cup GitWrappers \cup {"getPaneBaseIndex"}

\* What the tool may have printed when it did not succeed.
FailureOutputs ==
    {"", "fatal"}

\* A returned error: its message and the error it wraps with %w ("" for
\* none).  NilError is the nil a call returns on success.
NilError ==
    [nil |-> TRUE, msg |-> "", wraps |-> ""]

Errorf(msg, wraps) ==
    [nil |-> FALSE, msg |-> msg, wraps |-> wraps]

\* What a wrapper returns, cmdErr being what Run, Output or CombinedOutput
\* returned ("" for nil).  The git wrappers format the output with %s and
\* wrap nothing; getPaneBaseIndex takes any failure for an unset option and
\* returns 0, nil.
WrapperResult(name, ctxErr, cmdErr, output) ==
    IF cmdErr = "" THEN NilError
    ELSE IF name = "getPaneBaseIndex" THEN NilError
    ELSE IF ctxErr = "canceled" THEN Errorf("operation cancelled", "")
    ELSE IF name = "runTmuxCmdWithContext" THEN Errorf("tmux command failed", cmdErr)
    ELSE IF name = "sendKeysWithContext" THEN Errorf("failed to send keys to pane", cmdErr)
    ELSE IF name = "newWindow" THEN Errorf("failed to create tmux window", cmdErr)
    ELSE Errorf(output, "")

\* ctx.Err()
CtxErr(ctx) ==
    IF ctx = "cancelled" THEN "canceled"
    ELSE IF ctx = "expired" THEN "deadline exceeded"
    ELSE ""

\* cmd.Run, cmd.Output or cmd.CombinedOutput is called
WrapperStart ==
    /\ wrapper # NoWrapper
    /\ wrapper.pc = "call"
    /\ wrapper' = IF wrapper.ctx = "live"
                    THEN [wrapper EXCEPT !.pc = "running", !.executed = TRUE]
                    ELSE [wrapper EXCEPT !.pc = "exited", !.cmdErr = CtxErr(wrapper.ctx)]
    /\ UNCHANGED <<createVars, cleanupEnv, cleanupLocals, childVars, clog, quiet,
                   mainRepoRoot, notifying, calls, finds, nameErr, listModel>>

\* the tool exits by itself, with success or with a failure
ToolExits ==
    /\ wrapper # NoWrapper
    /\ wrapper.pc = "running"
    /\ \E ok \in BOOLEAN, out \in FailureOutputs :
         wrapper' = [wrapper EXCEPT !.pc = "exited",
                                    !.cmdErr = IF ok THEN "" ELSE "exit status 1",
                                    !.output = IF ok THEN "" ELSE out]
    /\ UNCHANGED <<createVars, cleanupEnv, cleanupLocals, childVars, clog, quiet,
                   mainRepoRoot, notifying, calls, finds, nameErr, listModel>>

\* cancel() is called or the deadline passes: a running command is killed
ContextDone ==
    /\ wrapper # NoWrapper
    /\ wrapper.pc \in {"running", "exited"}
    /\ wrapper.ctx = "live"
    /\ \E how \in {"cancelled", "expired"}, out \in FailureOutputs :
         wrapper' = IF wrapper.pc = "running"
                      THEN [wrapper EXCEPT !.ctx = how, !.pc = "exited",
                                           !.cmdErr = "signal: killed", !.output = out,
                                           !.killedBy = how]
                      ELSE [wrapper EXCEPT !.ctx = how]
    /\ UNCHANGED <<createVars, cleanupEnv, cleanupLocals, childVars, clog, quiet,
                   mainRepoRoot, notifying, calls, finds, nameErr, listModel>>

\* "if err != nil { if ctx.Err() == context.Canceled ..." and the return
WrapperReturn ==
    /\ wrapper # NoWrapper
    /\ wrapper.pc = "exited"
    /\ wrapper' = [wrapper EXCEPT
                     !.pc = "returned",
                     !.result = WrapperResult(wrapper.name, CtxErr(wrapper.ctx),
                                              wrapper.cmdErr, wrapper.output)]
    /\ UNCHANGED <<createVars, cleanupEnv, cleanupLocals, childVars, clog, quiet,
                   mainRepoRoot, notifying, calls, finds, nameErr, listModel>>

InitWrappers ==
    /\ CreateIdle
    /\ CleanupIdle
    /\ inTmux = TRUE
    /\ worktreeName = <<>>
    /\ windows = <<>>
    /\ ownWindow = 0
    /\ calls = NoCalls
    /\ finds = NoFinds
    /\ nameErr = ""
    /\ listModel = NoList
    /\ \E name \in Wrappers, ctx \in {"live", "cancelled", "expired"} :
         wrapper = [name |-> name, ctx0 |-> ctx, ctx |-> ctx, pc |-> "call",
                    executed |-> FALSE, cmdErr |-> "", output |-> "", killedBy |-> "",
                    result |-> NilError]

NextWrappers ==
    \/ WrapperStart
    \/ ToolExits
    \/ ContextDone
    \/ WrapperReturn

SpecWrappers ==
    InitWrappers /\ [][NextWrappers]_vars

----------------------------------------------------------------------------
(* signals.SetupCancellableContext and the cleanup function it returns     *)
(* (src/unnamed/part_005 26-54), called by a caller that then runs an      *)
(* operation with the context and calls cleanup, once or again, and may    *)
(* then start over, as a process that runs several commands does.          *)
(* sigHandler is the goroutine of the latest call:                         *)
(* "listening" in its select, "signalled" when a signal sits in sigChan    *)
(* and the goroutine has not run yet, "done" when it has closed done.      *)

Invocations ==
    Cardinality({k \in 1..Len(clog) : clog[k].cmd = "SetupCancellableContext"})

\* The calls of cleanup since the latest SetupCancellableContext.
CleanupCalls ==
    Cardinality({k \in 1..Len(clog) :
                    /\ clog[k].cmd = "cleanup()"
                    /\ \A j \in k..Len(clog) : clog[j].cmd # "SetupCancellableContext"})

\* 27-45: a new context, signal.Notify on a new channel and a new goroutine.
\* A caller that starts over has had its cleanup return.
SccSetup ==
    /\ cpc \in {"sccSetup", "sccAfter"}
    /\ Invocations < MaxInvocations
    /\ clog' = Append(clog, CEntry("caller", "SetupCancellableContext", <<>>,
                                   Invocations + 1, TRUE))
    /\ sigHandler' = "listening"
    /\ notifying' = TRUE
    /\ ctxCancelled' = FALSE
    /\ cpc' = "sccBody"
    /\ UNCHANGED <<createVars, cleanupEnv, childVars, quiet, mainRepoRoot, calls, finds, nameErr, listModel,
                   wrapper, retTo, worktreeName, worktreePath, worktreeExists,
                   isInTargetWorktree, tmuxWindowClosed, windowIndex, cerr>>

\* the caller's operation with the context: it fails when the context is
\* cancelled
SccWork ==
    /\ cpc = "sccBody"
    /\ clog' = Append(clog, CEntry("caller", "operation", <<>>, 0, ~ctxCancelled))
    /\ cpc' = "sccWorked"
    /\ UNCHANGED <<createVars, cleanupEnv, childVars, commandVars, retTo, worktreeName,
                   worktreePath, worktreeExists, isInTargetWorktree, tmuxWindowClosed,
                   windowIndex, sigHandler, ctxCancelled, cerr>>

\* SIGINT or SIGTERM is delivered to sigChan
SccSignal ==
    /\ notifying
    /\ sigHandler = "listening"
    /\ sigHandler' = "signalled"
    /\ UNCHANGED <<createVars, cleanupEnv, childVars, clog, commandVars, cpc, retTo,
                   worktreeName, worktreePath, worktreeExists, isInTargetWorktree,
                   tmuxWindowClosed, windowIndex, ctxCancelled, cerr>>

\* 38-40: case <-sigChan: cancel(), and the deferred close(done)
GoroutineOnSignal ==
    /\ sigHandler = "signalled"
    /\ sigHandler' = "done"
    /\ ctxCancelled' = TRUE
    /\ UNCHANGED <<createVars, cleanupEnv, childVars, clog, commandVars, cpc, retTo,
                   worktreeName, worktreePath, worktreeExists, isInTargetWorktree,
                   tmuxWindowClosed, windowIndex, cerr>>

\* 41-43: the select has a case <-ctx.Done()
NoCtxDoneCase(handler, cancelled) ==
    FALSE

CtxDoneWakes(handler, cancelled) ==
    handler \in {"listening", "signalled"} /\ cancelled

\* 41-43: case <-ctx.Done(), and the deferred close(done)
GoroutineOnDone ==
    /\ CtxDoneWakes(sigHandler, ctxCancelled)
    /\ sigHandler' = "done"
    /\ UNCHANGED <<createVars, cleanupEnv, childVars, clog, commandVars, cpc, retTo,
                   worktreeName, worktreePath, worktreeExists, isInTargetWorktree,
                   tmuxWindowClosed, windowIndex, ctxCancelled, cerr>>

\* the caller calls cleanup(), after its work or after an earlier call
SccCallCleanup ==
    /\ cpc \in {"sccBody", "sccWorked", "sccAfter"}
    /\ CleanupCalls < MaxCleanupCalls
    /\ clog' = Append(clog, CEntry("caller", "cleanup()", <<>>, CleanupCalls + 1, TRUE))
    /\ cpc' = "sccStop"
    /\ UNCHANGED <<createVars, cleanupEnv, childVars, commandVars, retTo, worktreeName,
                   worktreePath, worktreeExists, isInTargetWorktree, tmuxWindowClosed,
                   windowIndex, sigHandler, ctxCancelled, cerr>>

\* 49: signal.Stop(sigChan)
SccStop ==
    /\ cpc = "sccStop"
    /\ notifying' = FALSE
    /\ cpc' = "sccCancel"
    /\ UNCHANGED <<createVars, cleanupEnv, childVars, clog, quiet, mainRepoRoot, calls, finds, nameErr, listModel,
                   wrapper, retTo, worktreeName, worktreePath, worktreeExists,
                   isInTargetWorktree, tmuxWindowClosed, windowIndex, sigHandler,
                   ctxCancelled, cerr>>

\* 50: cancel()
SccCancel ==
    /\ cpc = "sccCancel"
    /\ ctxCancelled' = TRUE
    /\ cpc' = "sccWait"
    /\ UNCHANGED <<createVars, cleanupEnv, childVars, clog, commandVars, retTo,
                   worktreeName, worktreePath, worktreeExists, isInTargetWorktree,
                   tmuxWindowClosed, windowIndex, sigHandler, cerr>>

\* 51: <-done
SccWait ==
    /\ cpc = "sccWait"
    /\ sigHandler = "done"
    /\ cpc' = "sccAfter"
    /\ UNCHANGED <<createVars, cleanupEnv, childVars, clog, commandVars, retTo,
                   worktreeName, worktreePath, worktreeExists, isInTargetWorktree,
                   tmuxWindowClosed, windowIndex, sigHandler, ctxCancelled, cerr>>

InitSignals ==
    /\ CreateIdle
    /\ inTmux = FALSE
    /\ quiet = FALSE
    /\ notifying = FALSE
    /\ calls = NoCalls
    /\ wrapper = NoWrapper
    /\ finds = NoFinds
    /\ nameErr = ""
    /\ listModel = NoList
    /\ mainRepoRoot = <<>>
    /\ args = <<>>
    /\ cwd = RepoRoot
    /\ worktrees = {}
    /\ windows = <<>>
    /\ ownWindow = 0
    /\ hupPending = FALSE
    /\ cpc = "sccSetup"
    /\ retTo = ""
    /\ worktreeName = <<>>
    /\ worktreePath = <<>>
    /\ worktreeExists = FALSE
    /\ isInTargetWorktree = FALSE
    /\ tmuxWindowClosed = FALSE
    /\ windowIndex = <<>>
    /\ sigHandler = "none"
    /\ ctxCancelled = FALSE
    /\ cerr = ""
    /\ childPc = "none"
    /\ detachedPath = <<>>
    /\ logFile = FALSE
    /\ clog = <<>>

NextSignals ==
    \/ SccSetup
    \/ SccWork
    \/ SccSignal
    \/ GoroutineOnSignal
    \/ GoroutineOnDone
    \/ SccCallCleanup
    \/ SccStop
    \/ SccCancel
    \/ SccWait

\* The caller and the goroutine keep running; whether a signal is sent is up
\* to the user.
SpecSignals ==
    /\ InitSignals
    /\ [][NextSignals]_vars
    /\ WF_vars(SccStop)
    /\ WF_vars(SccCancel)
    /\ WF_vars(SccWait)
    /\ WF_vars(GoroutineOnSignal)
    /\ WF_vars(GoroutineOnDone)

----------------------------------------------------------------------------
(* The three commands: "ko new name", "ko switch name" (or the list's call *)
(* of switchToWorktree with quiet set) and "ko cleanup name", one of them  *)
(* started in an environment of the kind above.                            *)

\* Names ValidateWorktreeName must reject: a path traversal and a path.
InvalidNames ==
    {<<".", ".">>, <<"a", "/", "b">>}

CommandNames ==
    {Wt} \cup InvalidNames

CommandSessions ==
    {<<ShellWindow>>, <<ShellWindow, WtWindow>>, <<ShellWindow, OtherWtWindow>>}

\* The setup script is in the worktree; only in the main repository, from
\* where it can be copied; nowhere.
CommandFs ==
    {[inWorktree |-> TRUE, mainRootOk |-> TRUE, inMainRepo |-> TRUE, copyOk |-> TRUE],
     [inWorktree |-> FALSE, mainRootOk |-> TRUE, inMainRepo |-> TRUE, copyOk |-> TRUE],
     [inWorktree |-> FALSE, mainRootOk |-> TRUE, inMainRepo |-> FALSE, copyOk |-> FALSE]}

InitCommands ==
    /\ CleanupEnvironment
    /\ inTmux => windows \in CommandSessions
    /\ args \in {<<n>> : n \in CommandNames}
    /\ retTo = ""
    /\ worktreePath = <<>>
    /\ worktreeExists = FALSE
    /\ isInTargetWorktree = FALSE
    /\ tmuxWindowClosed = FALSE
    /\ windowIndex = <<>>
    /\ sigHandler = "none"
    /\ ctxCancelled = FALSE
    /\ cerr = ""
    /\ winPanes = <<>>
    /\ winActive = 0
    /\ paneKeys = <<>>
    /\ pc = "idle"
    /\ i = 0
    /\ sendIdx = 0
    /\ paneBaseIndex = 0
    /\ err = ""
    /\ log = <<>>
    /\ \/ /\ cpc = "start"
          /\ quiet = FALSE
          /\ notifying = FALSE
          /\ calls = NoCalls
          /\ wrapper = NoWrapper
          /\ finds = NoFinds
          /\ nameErr = ""
          /\ listModel = NoList
          /\ worktreeName = <<>>
          /\ cfg = [SetupScript |-> "", PaneCommands |-> <<>>]
          /\ fs = [inWorktree |-> FALSE, mainRootOk |-> FALSE, inMainRepo |-> FALSE,
                   copyOk |-> FALSE]
          /\ tmuxBase = 0
       \/ /\ cpc = "swValidate"
          /\ quiet \in BOOLEAN
          /\ notifying = FALSE
          /\ calls = NoCalls
          /\ wrapper = NoWrapper
          /\ finds = NoFinds
          /\ nameErr = ""
          /\ listModel = NoList
          /\ worktreeName = args[1]
          /\ cfg \in Configs
          /\ fs \in CommandFs
          /\ tmuxBase \in 0..MaxBase
       \/ /\ cpc = "newValidate"
          /\ quiet = FALSE
          /\ notifying = FALSE
          /\ calls = NoCalls
          /\ wrapper = NoWrapper
          /\ finds = NoFinds
          /\ nameErr = ""
          /\ listModel = NoList
          /\ worktreeName = <<>>
          /\ cfg \in Configs
          /\ fs \in CommandFs
          /\ tmuxBase \in 0..MaxBase

NextSwitch ==
    \/ SwitchValidate
    \/ SwitchCheckTmux
    \/ SwitchCheckRepo
    \/ SwitchRepoRoot
    \/ SwitchStat
    \/ SwitchWindowExists
    \/ SwitchToExisting
    \/ SwitchLoadConfig
    \/ SwitchSetupSignals
    \/ SwitchRepoName
    \/ SwitchCreate
    \/ SwitchCreateReturn

NextNew ==
    \/ NewValidate
    \/ NewSetupSignals
    \/ NewCheckRepo
    \/ NewLoadConfig
    \/ NewRepoRoot
    \/ NewStatSetup
    \/ NewStatWorktree
    \/ NewCreateWorktree
    \/ NewRepoName
    \/ NewCreate
    \/ NewCreateReturn

NextCommands ==
    \/ NextCleanup
    \/ NextSwitch
    \/ NextNew
    \/ NextCreate

SpecCommands ==
    InitCommands /\ [][NextCommands]_vars

\* The detached child runs whatever becomes of the parent: it is an
\* operating-system process of its own.
SpecSpawnFair ==
    /\ SpecSpawn
    /\ WF_vars(ChildStart)
    /\ WF_vars(ChildSleep)
    /\ WF_vars(ChildRemove)

----------------------------------------------------------------------------
(* "ko cleanup --detached [--detached-path path]" is started: runCleanup   *)
(* 369-373 goes straight to runDetachedCleanup.                            *)

\* A worktree of the repository that "git worktree add /tmp/wt" made, outside
\* .ko.
OutsideWorktree ==
    <<TmpDir, Wt>>

InitDetached ==
    /\ CreateIdle
    /\ Environment({WorktreePathOf(Wt), WorktreePathOf(Wx), OutsideWorktree})
    /\ quiet = FALSE
    /\ notifying = FALSE
    /\ calls = NoCalls
    /\ wrapper = NoWrapper
    /\ finds = NoFinds
    /\ nameErr = ""
    /\ listModel = NoList
    /\ args = <<>>
    /\ cpc = "idle"
    /\ retTo = ""
    /\ worktreeName = <<>>
    /\ worktreePath = <<>>
    /\ worktreeExists = FALSE
    /\ isInTargetWorktree = FALSE
    /\ tmuxWindowClosed = FALSE
    /\ windowIndex = <<>>
    /\ sigHandler = "none"
    /\ ctxCancelled = FALSE
    /\ cerr = ""
    /\ childPc = "start"
    /\ detachedPath \in {<<>>, WorktreePathOf(Wt), WorktreePathOf(Wx), OutsideWorktree}
    /\ logFile = FALSE
    /\ clog = <<>>

NextDetached ==
    \/ ChildStart
    \/ ChildSleep
    \/ ChildRemove

SpecDetached ==
    InitDetached /\ [][NextDetached]_vars

\* A command that can take a step takes one: its process is running.
SpecCommandsFair ==
    SpecCommands /\ WF_vars(NextCommands)

SpecCleanupFair ==
    SpecCleanup /\ WF_vars(NextCleanup)

----------------------------------------------------------------------------
(* "ko cleanup" run twice in a row: once the first run has returned nil,   *)
(* the same command is started again in the same directory.                *)

\* The log entry of the second invocation.
SecondRun ==
    CEntry("shell", "ko cleanup", cwd, 0, TRUE)

CleanupAgain ==
    /\ cpc = "returned"
    /\ cerr = ""
    /\ \A k \in 1..Len(clog) : clog[k] # SecondRun
    /\ clog' = Append(clog, SecondRun)
    /\ cpc' = "start"
    /\ retTo' = ""
    /\ worktreeName' = <<>>
    /\ worktreePath' = <<>>
    /\ worktreeExists' = FALSE
    /\ isInTargetWorktree' = FALSE
    /\ tmuxWindowClosed' = FALSE
    /\ windowIndex' = <<>>
    /\ sigHandler' = "none"
    /\ notifying' = FALSE
    /\ ctxCancelled' = FALSE
    /\ UNCHANGED <<createVars, quiet, mainRepoRoot, calls, wrapper, finds, nameErr, listModel, cleanupEnv, childVars, cerr>>

NextCleanupTwice ==
    \/ NextCleanup
    \/ CleanupAgain

SpecCleanupTwice ==
    InitCleanup /\ [][NextCleanupTwice]_vars

----------------------------------------------------------------------------
(* Properties of the cleanup command.                                      *)

CLogIndices ==
    1..Len(clog)

\* The current directory is the directory of the worktree being cleaned up,
\* /repo/.ko/<name>, or lies below it.
CwdInTargetWorktree ==
    IsPrefix(WorktreePathOf(worktreeName), cwd)

\* runCleanup has decided between the detached and the synchronous path.
Decided ==
    cpc \in {"spawn", "syncClose", "closeList", "closeKill", "syncSleep",
             "syncRemove", "spawnExecutable", "spawnStart"}

ParentRemoves ==
    {k \in CLogIndices : clog[k].proc = "parent" /\ clog[k].cmd = "git worktree remove"}

\* runCleanup never reaches the call of spawnDetachedCleanup (line 471):
\* worktreePath is the current directory extended by .ko/<name>, so the
\* current directory is never at or below it.
DetachedPathNeverTaken ==
    cpc # "spawn" /\ ~isInTargetWorktree

\* C1: run from the target worktree's directory or below it, in a tmux
\* session, runCleanup takes the detached path (it goes on to spawn the
\* detached process) and does not itself run git worktree remove.
C1_InsideTargetTakesDetachedPath ==
    (Decided /\ CwdInTargetWorktree /\ inTmux) =>
        /\ isInTargetWorktree
        /\ ParentRemoves = {}

C2_ParentKilledBeforeSpawn ==
    /\ cpc = "killed"
    /\ childPc = "none"
    /\ \E k \in CLogIndices : clog[k].cmd = "kill-window" /\ clog[k].ok

\* The panes of the window with the given index in the sessions modelled.
PanesOfWindow(idx) ==
    UNION {w.panes : w \in {v \in {ShellWindow, OtherWtWindow, WtWindow, WxWindow} : v.index = idx}}

\* C3: CloseWindow sends an interrupt to every pane of the window before it
\* issues kill-window.
C3_InterruptEveryPaneBeforeKill ==
    \A k \in CLogIndices :
        clog[k].cmd = "kill-window"
            => \A p \in PanesOfWindow(clog[k].index) :
                   \E m \in 1..(k - 1) :
                       clog[m].cmd = "send-keys C-c" /\ clog[m].index = p

\* C4: on the synchronous path git worktree remove is issued only after the
\* attempt to close the window has returned (in tmux: after list-windows and,
\* for a window that was found, after kill-window), and when the window was
\* closed successfully the fixed delay lies between the kill and the removal.
C4_RemoveAfterCloseAndDelay ==
    \A k \in ParentRemoves :
        /\ cpc \notin {"syncClose", "closeList", "closeKill", "syncSleep"}
        /\ inTmux => \E m \in 1..(k - 1) : clog[m].cmd = "list-windows"
        /\ \A m \in CLogIndices : clog[m].cmd \in {"list-windows", "kill-window"} => m < k
        /\ \A m \in 1..(k - 1) :
               (clog[m].cmd = "kill-window" /\ clog[m].ok)
                   => \E d \in (m + 1)..(k - 1) :
                          /\ clog[d].cmd = "sleep"
                          /\ clog[d].index = SyncDelaySeconds

C4_Witness ==
    \E k \in ParentRemoves :
        /\ clog[k].ok
        /\ \E m \in 1..(k - 1) : clog[m].cmd = "kill-window" /\ clog[m].ok

\* The successful kill-window commands of the log.
KillsDone ==
    {k \in CLogIndices : clog[k].cmd = "kill-window" /\ clog[k].ok}

\* The name of the window with the given index in the sessions modelled.
NameOfWindow(idx) ==
    (CHOOSE w \in {ShellWindow, OtherWtWindow, WtWindow, WxWindow} : w.index = idx).name

\* C11: CloseWindow called for (repoName, worktreeName) kills only the
\* window named exactly repoName|worktreeName; a window another repository
\* made for a worktree of the same name is never the one killed.
C11_KillsOnlyExactlyNamedWindow ==
    \A k \in KillsDone :
        NameOfWindow(clog[k].index) = WindowName(RepoDir, worktreeName)

\* C15: the path runCleanup checks and removes is the path
\* {repoRoot}/.ko/{name} that "ko new" gave the worktree of that name, from
\* every current directory inside the repository.
C15_CleanupPathIsNewPath ==
    (worktreePath # <<>> /\ IsGitRepo(cwd))
        => worktreePath = WorktreePathOf(worktreeName)

\* C18: cleanup for a valid name, run twice in a row from the same
\* directory, returns nil both times, and the second run leaves the windows
\* and the worktrees as the first run left them (no tmux or git command
\* having failed).
C18_SecondCleanupChangesNothing ==
    \A m \in CLogIndices :
        (clog[m] = SecondRun /\ \A k \in CLogIndices : clog[k].ok)
            => /\ \A k \in (m + 1)..Len(clog) :
                      clog[k].cmd \notin {"kill-window", "git worktree remove"}
               /\ cpc = "returned" => cerr = ""

----------------------------------------------------------------------------
(* The life of a window: CreateSessionWithContext for the worktree wt and, *)
(* once it has returned nil, CloseWindow for the same name, as             *)
(* TestWindowExistsAfterCreation (session_test.go 355-395) calls them.     *)

InitLifecycle ==
    /\ InitCreate
    /\ inTmux

\* tmux.CloseWindow(repoName, worktreeName) is called after Create returned nil
CallCloseWindow ==
    /\ pc = "done"
    /\ cpc = "idle"
    /\ cpc' = "closeList"
    /\ retTo' = "caller"
    /\ UNCHANGED <<createVars, commandVars, cleanupEnv, childVars, clog, worktreeName,
                   worktreePath, worktreeExists, isInTargetWorktree, tmuxWindowClosed,
                   windowIndex, sigHandler, ctxCancelled, cerr>>

NextLifecycle ==
    \/ NextCreate
    \/ CallCloseWindow
    \/ CloseListWindows
    \/ CloseKillWindow

SpecLifecycle ==
    InitLifecycle /\ [][NextLifecycle]_vars

\* C13: once Create has returned nil for the worktree name w, WindowExists(w)
\* is (true, nil); once a following CloseWindow for w has returned nil, with
\* no Create in between, WindowExists(w) is (false, nil).
C13_ExistsAfterCreateGoneAfterClose ==
    /\ (pc = "done" /\ cpc = "idle")
           => WindowExists(TRUE, worktreeName) = [exists |-> TRUE, err |-> ""]
    /\ cpc = "closed"
           => WindowExists(TRUE, worktreeName) = [exists |-> FALSE, err |-> ""]

\* The first half of C13 alone.
ExistsAfterCreate ==
    (pc = "done" /\ cpc = "idle")
        => WindowExists(TRUE, worktreeName) = [exists |-> TRUE, err |-> ""]

----------------------------------------------------------------------------
(* Properties of CreateSessionWithContext.                                 *)

LogIndices ==
    1..Len(log)

IsSplit(e) ==
    e.cmd = "split-window"

IsSendKeys(e) ==
    e.cmd = "send-keys"

\* Every command run so far succeeded.
AllCommandsSucceeded ==
    \A k \in LogIndices : log[k].ok

\* The pane-base-index query succeeded, so paneBaseIndex is tmux's value.
BaseIndexRead ==
    \E k \in LogIndices : log[k].cmd = "show-options" /\ log[k].ok

\* The send-keys commands of the log as <<keys, target index>> pairs.
SendsOf(l) ==
    LET sends == SelectSeq(l, IsSendKeys) IN
      [k \in 1..Len(sends) |-> <<sends[k].key, sends[k].target>>]

\* The sends section 4.3 prescribes for base index b: the setup command (when
\* there is one) to pane b, pane command k (0-based) to pane b + k + 1.
PrescribedSends(b) ==
    (IF cfg.SetupScript # "" THEN << <<SetupKey, b>> >> ELSE << >>)
      \o [k \in 1..NumPaneCommands |-> <<CmdKey(cfg.PaneCommands[k]), b + (k - 1) + 1>>]

\* C5: a Create in which every tmux command succeeds issues exactly N
\* split-window commands (none when N = 0), leaves the window with exactly
\* 1 + N panes, and sends the setup command (when non-empty) to pane index b
\* and pane command i to pane index b + i + 1, b being tmux's pane base index.
C5_SplitCountAndSendTargets ==
    (pc = "done" /\ AllCommandsSucceeded) =>
        /\ Len(SelectSeq(log, IsSplit)) = NumPaneCommands
        /\ Len(winPanes) = 1 + NumPaneCommands
        /\ SendsOf(log) = PrescribedSends(tmuxBase)

C5_Witness ==
    /\ pc = "done"
    /\ AllCommandsSucceeded
    /\ NumPaneCommands >= 2
    /\ cfg.SetupScript # ""
    /\ tmuxBase >= 1

\* C6: the pane that receives pane command i (the pane with index b + i + 1
\* when send-keys runs) is the pane made by the split issued for command i,
\* that is the pane of the (i+1)-th split-window.
C6_CommandReachesItsOwnPane ==
    BaseIndexRead =>
        \A k \in LogIndices :
            (IsSendKeys(log[k]) /\ log[k].ok /\ log[k].key[1] = "cmd")
                => log[k].pane = log[k].key[2] + 1

\* C7: the pane the split loop selects at index b + (i - 1) for command i is
\* the pane made two steps earlier: the setup pane for i = 1, the pane made
\* for command i - 2 (the (i-1)-th split-window) for i >= 2.
C7_SplitsPaneMadeTwoStepsEarlier ==
    BaseIndexRead =>
        \A k \in LogIndices :
            (log[k].step = "selectTarget" /\ log[k].ok)
                => LET it == log[k].target - paneBaseIndex + 1 IN
                     log[k].pane = IF it = 1 THEN 0 ELSE it - 1

\* C8: whenever select-pane or send-keys targets pane index k the window
\* already has a pane with index k; no select-pane or below split is issued
\* before the first adjacent split has succeeded; a split is issued only
\* after every earlier split has returned successfully.
C8_TargetsExistAndSplitsInOrder ==
    /\ \A k \in LogIndices :
           log[k].cmd \in {"select-pane", "send-keys"} => log[k].had
    /\ \A k \in LogIndices :
           log[k].step \in {"selectTarget", "splitBelow"}
               => \E m \in 1..(k - 1) : log[m].step = "splitFirst" /\ log[m].ok
    /\ \A k, m \in LogIndices :
           (k < m /\ IsSplit(log[k]) /\ IsSplit(log[m])) => log[k].ok

\* The place of a step in the order of section 4.5.
StepRank(step) ==
    CASE step = "isInTmux" -> 1
      [] step = "ensureSetupScript" -> 2
      [] step = "getPaneBaseIndex" -> 3
      [] step = "newWindow" -> 4
      [] step \in {"splitFirst", "selectTarget", "splitBelow"} -> 5
      [] step = "sendSetup" -> 6
      [] step = "sendPaneCommands" -> 7
      [] step = "focus" -> 8

CountSteps(step) ==
    Cardinality({k \in LogIndices : log[k].step = step})

\* C9: a successful Create runs, in this order, the tmux-session check and
\* the setup-script resolution, the pane-base-index read, new-window, all the
\* splits, the send of the setup command to pane b (only when it is
\* non-empty), the sends of the pane commands in configuration order, and
\* last select-pane b, after which no tmux command follows.
C9_StepOrderOfSuccessfulCreate ==
    pc = "done" =>
        /\ \A k, m \in LogIndices :
               k < m => StepRank(log[k].step) <= StepRank(log[m].step)
        /\ \A st \in {"isInTmux", "ensureSetupScript", "getPaneBaseIndex",
                      "newWindow", "focus"} : CountSteps(st) = 1
        /\ CountSteps("sendSetup") = (IF cfg.SetupScript # "" THEN 1 ELSE 0)
        /\ \A k \in LogIndices :
               log[k].step = "sendSetup" => log[k].target = paneBaseIndex
        /\ LET cmds == SelectSeq(log, LAMBDA e : e.step = "sendPaneCommands") IN
             [k \in 1..Len(cmds) |-> cmds[k].key]
                 = [k \in 1..NumPaneCommands |-> CmdKey(cfg.PaneCommands[k])]
        /\ LET last == log[Len(log)] IN
             /\ last.step = "focus"
             /\ last.cmd = "select-pane"
             /\ last.target = paneBaseIndex

C9_Witness ==
    /\ pc = "done"
    /\ cfg.SetupScript # ""
    /\ NumPaneCommands >= 2

\* The panes the successful commands of the log have made.
PanesMade ==
    Cardinality({k \in LogIndices :
                    log[k].cmd \in {"new-window", "split-window"} /\ log[k].ok})

\* C10: when new-window, a split, a select-pane or a send-keys fails, Create
\* returns an error at once: the failed command is the last one it runs (no
\* later step, no retry), and the window keeps every pane made before.
C10_FailureAbortsWithoutRollback ==
    \A k \in LogIndices :
        (log[k].cmd \in {"new-window", "split-window", "select-pane", "send-keys"}
           /\ ~log[k].ok)
            => /\ k = Len(log)
               /\ pc = "failed"
               /\ err # ""
               /\ Len(winPanes) = PanesMade

C10_Witness ==
    /\ pc = "failed"
    /\ Len(log) > 0
    /\ log[Len(log)].step = "splitBelow"
    /\ ~log[Len(log)].ok
    /\ Len(winPanes) >= 2

----------------------------------------------------------------------------
(* Properties of the commands.                                             *)

\* The number of times CreateSessionWithContext was entered.
CreateCalls ==
    CountSteps("isInTmux")

SwitchBeforeCreate ==
    {"swLoadConfig", "swSetupSignals", "swRepoName", "swCreate"}

NewPositions ==
    {"newValidate", "newSetupSignals", "newCheckRepo", "newLoadConfig", "newRepoRoot",
     "newStatSetup", "newStatWorktree", "newCreateWorktree", "newRepoName",
     "newCreate", "newInCreate"}

SwitchPositions ==
    {"swValidate", "swCheckTmux", "swCheckRepo", "swRepoRoot", "swStat",
     "swWindowExists", "swSwitchTo", "swInCreate"} \cup SwitchBeforeCreate

\* The name given on the command line is invalid, or the command does not
\* run in a git repository, or runNew or switchToWorktree does not run in a
\* tmux session.
PreconditionFails ==
    \/ ValidateWorktreeName(args[1]) # ""
    \/ ~IsGitRepo(cwd)
    \/ (~inTmux /\ cpc \in NewPositions \cup SwitchPositions)

\* C16: when the name is invalid, or the command is not run in a git
\* repository, or new or switch is not run in a tmux session, no step of
\* the command creates or removes a worktree or makes or kills a window,
\* and the command returns an error.
C16_FailedPreconditionLeavesNoTrace ==
    /\ [][PreconditionFails => UNCHANGED <<worktrees, windows>>]_vars
    /\ [][(PreconditionFails /\ cpc' = "returned") => cerr' # ""]_vars

\* The name has not been through ValidateWorktreeName yet.
BeforeValidation ==
    cpc \in {"start", "validate", "swValidate", "newValidate"}

\* No signal handler is installed, no goroutine started and no git or tmux
\* subprocess has been run.
NothingStarted ==
    /\ sigHandler = "none"
    /\ clog = <<>>
    /\ log = <<>>
    /\ pc = "idle"

----------------------------------------------------------------------------
(* Properties of the detached child                                        *)

ChildEntries ==
    {k \in 1..Len(clog) : clog[k].proc = "child"}

ChildRemovals ==
    {k \in ChildEntries : clog[k].cmd = "git worktree remove"}

ChildSleeps ==
    {k \in ChildEntries : clog[k].cmd = "sleep"}

C20_DetachedCleanup ==
    /\ Cardinality(ChildRemovals) <= 1
    /\ \A k \in ChildRemovals :
         /\ clog[k].path = detachedPath
         /\ \E j \in ChildSleeps : j < k /\ clog[j].index = DetachedDelaySeconds
         /\ clog[k].ok <=> childPc = "done"
         /\ ~clog[k].ok <=> (childPc = "failed" /\ logFile)
    /\ childPc \in {"done", "failed"} /\ detachedPath # <<>> => Cardinality(ChildRemovals) = 1
    /\ detachedPath = <<>> => (ChildEntries = {} /\ childPc \in {"start", "failed"} /\ ~logFile)
    /\ logFile => \E k \in ChildRemovals : ~clog[k].ok

\* A child that was given no path has failed; nothing was run.
C20_Witness ==
    /\ detachedPath = <<>>
    /\ childPc = "failed"
    /\ ChildEntries = {}

----------------------------------------------------------------------------
(* Properties of the paths that are removed                                *)

\* The commands "git worktree remove" run so far, by the command and by its
\* detached child.
Removals ==
    {k \in 1..Len(clog) : clog[k].cmd = "git worktree remove"}

\* C21: every path passed to "git worktree remove", by runCleanup and by
\* runDetachedCleanup, is {repoRoot}/.ko/{name} for a name that
\* ValidateWorktreeName accepts, so no other path is ever removed.
C21_RemovedPathsComeFromValidNames ==
    \A k \in Removals :
        \E name \in BoundedNames \cup {Wt, Wx} :
            /\ ValidateWorktreeName(name) = ""
            /\ clog[k].path = WorktreePathOf(name)

----------------------------------------------------------------------------
(* Properties of two calls side by side                                    *)

BothDone ==
    \A c \in CallIds : calls.pc[c] = "done"

\* C22: with the tmux commands of two calls interleaved in any order, the
\* window of each call holds only panes that call made and receives only
\* keys that call sent, and when both calls have returned nil each window
\* has 1 + N panes.
C22_CallsKeepToTheirOwnWindow ==
    calls # NoCalls =>
      /\ \A w \in CallIds : \A k \in 1..Len(calls.win[w].panes) :
             /\ calls.win[w].panes[k][1] = w
             /\ \A m \in calls.sent : m.pane = calls.win[w].panes[k] => m.from = w
      /\ BothDone => \A w \in CallIds : Len(calls.win[w].panes) = 1 + NumPaneCommands

----------------------------------------------------------------------------
(* Properties of the subprocess wrappers                                   *)

WrapperReturned ==
    wrapper # NoWrapper /\ wrapper.pc = "returned"

\* C23: a wrapper called with a context that is cancelled already returns
\* the error "operation cancelled" and its command is not executed.
C23_CancelledBeforeCallIsReported ==
    (WrapperReturned /\ wrapper.ctx0 = "cancelled")
        => (wrapper.result.msg = "operation cancelled" /\ ~wrapper.executed)

\* The call ended because the deadline of its context had passed: the command
\* was not started for it, or was killed by it.
TimedOut ==
    /\ WrapperReturned
    /\ \/ wrapper.ctx0 = "expired"
       \/ wrapper.killedBy = "expired"

\* What the wrapper returns for a command that ran and failed by itself.
ToolFailureResults(name) ==
    {WrapperResult(name, "", "exit status 1", out) : out \in FailureOutputs}

\* C24: a wrapper whose call ended on the deadline of its context returns an
\* error, and not one it returns for a command that ran and failed.
C24_TimeoutIsNotAToolFailure ==
    TimedOut =>
        /\ ~wrapper.result.nil
        /\ wrapper.result \notin ToolFailureResults(wrapper.name)

----------------------------------------------------------------------------
(* Properties of the signal listener                                       *)

\* C25: when an invocation of new, switch or cleanup has returned, its
\* signal goroutine has exited and signal.Stop has been called: no listener
\* is left blocked on sigChan.
C25_NoListenerLeftAfterReturn ==
    cpc = "returned" => (sigHandler \in {"none", "done"} /\ ~notifying)

\* C27: once the signal handler is installed, runNew, runCleanup and
\* switchToWorktree return on every exit path (or the process is ended by
\* the hangup of its window), also when no signal ever arrives.
C27_CommandsReturn ==
    (sigHandler = "listening") ~> (cpc \in {"returned", "killed"})

\* C26: a call of the cleanup function of SetupCancellableContext returns,
\* be it the first call or a later one, with or without a signal delivered
\* before, and once it has returned the context is cancelled.
C26_CleanupFunctionTerminates ==
    /\ (cpc = "sccStop") ~> (cpc = "sccAfter")
    /\ [](cpc = "sccAfter" => ctxCancelled)

\* The second call has returned.
C26_Witness ==
    /\ cpc = "sccAfter"
    /\ CleanupCalls = MaxCleanupCalls

----------------------------------------------------------------------------
(* new, switch and cleanup run one after the other in one repository and   *)
(* one tmux session, each inside or outside tmux.                          *)

SessionCommands ==
    {"ko new", "ko switch", "ko cleanup"}

\* The commands typed so far.
Typed ==
    SelectSeq(clog, LAMBDA e : e.proc = "shell")

StartOf(cmd) ==
    IF cmd = "ko new" THEN "newValidate"
    ELSE IF cmd = "ko switch" THEN "swValidate"
    ELSE "start"

\* .koconfig has a setup script and two pane commands.
SessionConfig ==
    [SetupScript |-> "setup.sh", PaneCommands |-> <<0, 1>>]

\* The first command is typed.  The session holds the window of a shell and
\* no window of a worktree; the repository has no worktree; the setup script
\* is in the main repository.
InitSession ==
    /\ cfg = SessionConfig
    /\ fs = [inWorktree |-> TRUE, mainRootOk |-> TRUE, inMainRepo |-> TRUE, copyOk |-> TRUE]
    /\ tmuxBase = 0
    /\ inTmux \in BOOLEAN
    /\ winPanes = <<>>
    /\ winActive = 0
    /\ paneKeys = <<>>
    /\ pc = "idle"
    /\ i = 0
    /\ sendIdx = 0
    /\ paneBaseIndex = 0
    /\ err = ""
    /\ log = <<>>
    /\ quiet = FALSE
    /\ notifying = FALSE
    /\ mainRepoRoot = <<>>
    /\ calls = NoCalls
    /\ wrapper = NoWrapper
    /\ finds = NoFinds
    /\ nameErr = ""
    /\ listModel = NoList
    /\ args = <<Wt>>
    /\ cwd = RepoRoot
    /\ worktrees = {}
    /\ windows = <<ShellWindow>>
    /\ ownWindow = (IF inTmux THEN ShellWindow.index ELSE 0)
    /\ hupPending = FALSE
    /\ retTo = ""
    /\ worktreePath = <<>>
    /\ worktreeExists = FALSE
    /\ isInTargetWorktree = FALSE
    /\ tmuxWindowClosed = FALSE
    /\ windowIndex = <<>>
    /\ sigHandler = "none"
    /\ ctxCancelled = FALSE
    /\ cerr = ""
    /\ childPc = "none"
    /\ detachedPath = <<>>
    /\ logFile = FALSE
    /\ \E cmd \in SessionCommands :
         /\ clog = <<CEntry("shell", cmd, cwd, 0, TRUE)>>
         /\ cpc = StartOf(cmd)
         /\ worktreeName = (IF cmd = "ko switch" THEN args[1] ELSE <<>>)

\* The command has ended and the next one is typed in a window of the
\* session or in a terminal outside tmux.  What the ended command logged is
\* dropped.
RunAnother ==
    /\ cpc \in {"returned", "killed"}
    /\ Len(Typed) < MaxCommands
    /\ \E cmd \in SessionCommands, tm \in BOOLEAN :
         /\ clog' = Append(Typed, CEntry("shell", cmd, cwd, 0, TRUE))
         /\ cpc' = StartOf(cmd)
         /\ worktreeName' = (IF cmd = "ko switch" THEN args[1] ELSE <<>>)
         /\ inTmux' = tm
         /\ ownWindow' \in (IF tm THEN WindowIndices ELSE {0})
    /\ hupPending' = FALSE
    /\ mainRepoRoot' = <<>>
    /\ notifying' = FALSE
    /\ retTo' = ""
    /\ worktreePath' = <<>>
    /\ worktreeExists' = FALSE
    /\ isInTargetWorktree' = FALSE
    /\ tmuxWindowClosed' = FALSE
    /\ windowIndex' = <<>>
    /\ sigHandler' = "none"
    /\ ctxCancelled' = FALSE
    /\ cerr' = ""
    /\ pc' = "idle"
    /\ winPanes' = <<>>
    /\ winActive' = 0
    /\ paneKeys' = <<>>
    /\ i' = 0
    /\ sendIdx' = 0
    /\ paneBaseIndex' = 0
    /\ err' = ""
    /\ log' = <<>>
    /\ nameErr' = ""
    /\ UNCHANGED <<cfg, fs, tmuxBase, quiet, calls, wrapper, finds, listModel,
                   args, cwd, worktrees, windows, childVars>>

NextSession ==
    \/ NextCommands
    \/ RunAnother

SpecSession ==
    InitSession /\ [][NextSession]_vars

----------------------------------------------------------------------------
(* Lookups of a window by worktree name, as session_test.go makes them:    *)
(* findWindowByWorktree and WindowExists called on a running session,      *)
(* with windows being created in between.                                  *)

\* The names looked up: the worktrees wt and x, and a name that is only the
\* end of a worktree name.
BinderNames ==
    {Wt, Wx, <<"t">>}

FindEntry(fn, name, listOk, r) ==
    [fn |-> fn, name |-> name, listOk |-> listOk, session |-> windows,
     index |-> r.index, wname |-> r.name, exists |-> r.exists, err |-> r.err]

\* session_test.go 345: findWindowByWorktree(ctx, name)
BinderFind ==
    /\ Len(finds) < MaxFinds
    /\ \E name \in BinderNames, listOk \in BOOLEAN :
         LET r == findWindowByWorktree(listOk, name) IN
           finds' = Append(finds, FindEntry("findWindowByWorktree", name, listOk,
                                            [index |-> r.index, name |-> r.name,
                                             exists |-> FALSE, err |-> r.err]))
    /\ UNCHANGED <<createVars, cleanupEnv, cleanupLocals, childVars, clog,
                   quiet, mainRepoRoot, notifying, calls, wrapper, nameErr, listModel>>

\* session_test.go 266: WindowExists(name)
BinderExists ==
    /\ Len(finds) < MaxFinds
    /\ \E name \in BinderNames, listOk \in BOOLEAN :
         LET r == WindowExists(listOk, name) IN
           finds' = Append(finds, FindEntry("WindowExists", name, listOk,
                                            [index |-> <<>>, name |-> <<>>,
                                             exists |-> r.exists, err |-> r.err]))
    /\ UNCHANGED <<createVars, cleanupEnv, cleanupLocals, childVars, clog,
                   quiet, mainRepoRoot, notifying, calls, wrapper, nameErr, listModel>>

\* session.go 132: tmux new-window -n "repo|name", between two lookups
BinderNewWindow ==
    /\ Len(windows) < MaxWindows
    /\ \E name \in {Wt, Wx} :
         windows' = WithNewWindow(WindowName(RepoDir, name))
    /\ UNCHANGED <<createVars, args, cwd, worktrees, ownWindow, hupPending,
                   cleanupLocals, childVars, clog, commandVars>>

InitBinder ==
    /\ CreateIdle
    /\ CleanupIdle
    /\ inTmux = TRUE
    /\ worktreeName = <<>>
    /\ windows \in CommandSessions
    /\ ownWindow = 1
    /\ calls = NoCalls
    /\ wrapper = NoWrapper
    /\ finds = NoFinds
    /\ nameErr = ""
    /\ listModel = NoList

NextBinder ==
    \/ BinderFind
    \/ BinderExists
    \/ BinderNewWindow

SpecBinder ==
    InitBinder /\ [][NextBinder]_vars

\* session_test.go 311: SwitchToWindow(name)
BinderSwitchTo ==
    /\ Len(finds) < MaxFinds
    /\ \E name \in BinderNames, listOk, selectOk \in BOOLEAN :
         LET r == SwitchToWindow(listOk, selectOk, name) IN
           /\ finds' = Append(finds, FindEntry("SwitchToWindow", name, listOk,
                                               [index |-> r.index, name |-> <<>>,
                                                exists |-> FALSE, err |-> r.err]))
           /\ clog' = clog \o SwitchToCommands(listOk, r)
    /\ UNCHANGED <<createVars, cleanupEnv, cleanupLocals, childVars,
                   quiet, mainRepoRoot, notifying, calls, wrapper, nameErr, listModel>>

NextSwitchTo ==
    \/ BinderSwitchTo
    \/ BinderNewWindow

SpecSwitchTo ==
    InitBinder /\ [][NextSwitchTo]_vars

----------------------------------------------------------------------------
(* Properties of ValidateWorktreeName                                      *)

Validated ==
    cpc # "validate"

NameRejected ==
    cpc = "returned" /\ cerr = "invalid worktree name"

\* The characters of [A-Za-z0-9_-].
CharsetChars ==
    {LowerLetters[k] : k \in 1..Len(LowerLetters)}
        \cup {UpperLetters[k] : k \in 1..Len(UpperLetters)}
        \cup {"0", "1", "2", "3", "4", "5", "6", "7", "8", "9", "_", "-"}

InCharset(name) ==
    /\ Len(name) \in 1..MaxNameLen
    /\ \A k \in 1..Len(name) : name[k] \in CharsetChars

\* C28 as stated: every name of 1 to 255 characters of [A-Za-z0-9_-] is
\* accepted.
C28_CharsetNamesAccepted ==
    (Validated /\ InCharset(worktreeName)) => NameAccepted

\* C28 as amended: every name of 1 to 255 characters of [A-Za-z0-9_-] that is
\* not a reserved device name in any case is accepted.
C28_CharsetNamesAcceptedButDevices ==
    (Validated /\ InCharset(worktreeName) /\ ToUpper(worktreeName) \notin ReservedNames)
        => NameAccepted

\* The name of 255 letters was accepted.
C28_Witness ==
    /\ NameAccepted
    /\ worktreeName = LongName(MaxNameLen)

\* The names the claim lists.
MustBeRejected(name) ==
    \/ name = <<>>
    \/ Len(name) > MaxNameLen
    \/ \E k \in 1..Len(name) : name[k] \in {"/", "\\"}
    \/ \E k \in 1..(Len(name) - 1) : name[k] = "." /\ name[k + 1] = "."
    \/ name = <<".">>
    \/ \E k \in 1..Len(name) : name[k] \in {"<NUL>", "<LF>", "<CR>", "<TAB>"}
    \/ ToUpper(name) \in ReservedNames

\* C29: ValidateWorktreeName returns an error for every name that is empty,
\* longer than 255, holds a path separator, "..", or a control character, is
\* ".", or is a reserved device name in any case; a length of 255 alone is
\* no reason to reject.
C29_ListedNamesRejected ==
    /\ (Validated /\ MustBeRejected(worktreeName)) => NameRejected
    /\ (Validated /\ worktreeName = LongName(MaxNameLen)) => NameAccepted

\* A device name in mixed case was rejected.
C29_Witness ==
    /\ NameRejected
    /\ worktreeName = <<"C", "o", "M", "5">>

----------------------------------------------------------------------------
(* Properties of findWindowByWorktree and WindowExists                     *)

\* No window of the session has a name that ends with "|" + name.
NoWindowMatches(session, name) ==
    \A k \in 1..Len(session) :
        LET w == session[k].name IN
          ~(/\ Len(w) > Len(name)
            /\ w[Len(w) - Len(name)] = "|"
            /\ \A j \in 1..Len(name) : w[Len(w) - Len(name) + j] = name[j])

\* The lookups that listed the windows and found none for the name.
Absent ==
    {k \in 1..Len(finds) :
        finds[k].listOk /\ NoWindowMatches(finds[k].session, finds[k].name)}

\* C30: for a worktree name that matches no window of the listed session,
\* findWindowByWorktree returns an empty index and an empty name with no
\* error and WindowExists returns (false, nil); two such calls for the same
\* name return the same result, and no call changes a window.
C30_AbsenceIsNoError ==
    /\ [](\A k \in Absent :
            /\ finds[k].index = <<>>
            /\ finds[k].wname = <<>>
            /\ ~finds[k].exists
            /\ finds[k].err = "")
    /\ [](\A j, k \in Absent :
            (finds[j].fn = finds[k].fn /\ finds[j].name = finds[k].name)
                => /\ finds[j].index = finds[k].index
                   /\ finds[j].wname = finds[k].wname
                   /\ finds[j].exists = finds[k].exists
                   /\ finds[j].err = finds[k].err)
    /\ [][finds' # finds => windows' = windows]_vars

\* The same absent name was looked up twice, in a session with a window
\* whose name ends with the name but not with "|" and the name.
C30_Witness ==
    /\ Len(finds) = MaxFinds
    /\ \E j, k \in Absent :
         /\ j < k
         /\ finds[j].fn = finds[k].fn
         /\ finds[j].name = finds[k].name
         /\ finds[k].name = <<"t">>
         /\ Len(finds[k].session) > 1

\* The switches that listed the windows and found none for the name.
AbsentSwitches ==
    {k \in Absent : finds[k].fn = "SwitchToWindow"}

WindowCommands ==
    {"select-window", "new-window", "kill-window"}

\* C31: SwitchToWindow for a worktree name that matches no window of the
\* listed session returns the error "no tmux window found for worktree:",
\* and that call runs no select-window and no new-window and leaves the
\* windows as they are.
C31_SwitchToAbsentFails ==
    /\ [](\A k \in AbsentSwitches : finds[k].err = "no tmux window found for worktree:")
    /\ [][(Len(finds') > Len(finds) /\ Len(finds') \in AbsentSwitches')
            => /\ windows' = windows
               /\ \A k \in (Len(clog) + 1)..Len(clog') : clog'[k].cmd \notin WindowCommands]_vars

\* A switch to a name that only ends a window's name failed, after a switch
\* that selected a window.
C31_Witness ==
    /\ Len(finds) = MaxFinds
    /\ Len(finds) \in AbsentSwitches
    /\ finds[Len(finds)].name = <<"t">>
    /\ \E k \in 1..Len(clog) : clog[k].cmd = "select-window" /\ clog[k].ok

----------------------------------------------------------------------------
(* Properties of CloseWindow on a missing window                           *)

\* CloseWindow is at its list-windows step and no window ends with "|" and
\* the worktree name.
ClosingAbsent ==
    cpc = "closeList" /\ NoWindowMatches(windows, worktreeName)

\* C32: CloseWindow for a worktree name that no window's name ends with
\* ("|" + name) returns an error from its list-windows step: it does not go
\* on to kill-window, and the windows are unchanged.
C32_CloseAbsentFails ==
    [][(ClosingAbsent /\ clog' # clog)
         => /\ cpc' # "closeKill"
            /\ cpc' = (IF retTo = "sync" THEN "syncSleep"
                       ELSE IF retTo = "spawn" THEN "spawnExecutable"
                       ELSE "closeFailed")
            /\ (retTo = "sync" => ~tmuxWindowClosed')
            /\ windows' = windows
            /\ \A k \in (Len(clog) + 1)..Len(clog') : clog'[k].cmd # "kill-window"]_vars

\* runCleanup's CloseWindow listed a session with windows, none of them for
\* the worktree, and returned its error.
C32_Witness ==
    /\ cpc = "syncSleep"
    /\ ~tmuxWindowClosed
    /\ clog # <<>>
    /\ clog[Len(clog)].cmd = "list-windows"
    /\ clog[Len(clog)].ok
    /\ Len(windows) > 1
    /\ NoWindowMatches(windows, worktreeName)

----------------------------------------------------------------------------
(* The pane base index of CreateSessionWithContext                         *)

\* The commands of the log that name a pane.
TargetedEntries ==
    {k \in LogIndices : log[k].cmd \in {"select-pane", "send-keys"}}

\* C33: every pane index Create targets with select-pane or send-keys lies
\* between B and B + N, B being the pane-base-index the tmux server is
\* configured with and N the number of pane commands; the base index is
\* queried exactly once, before new-window; also when the query fails.
C33_TargetsWithinBase ==
    /\ \A k \in TargetedEntries :
           log[k].target \in tmuxBase..(tmuxBase + Len(cfg.PaneCommands))
    /\ Cardinality({k \in LogIndices : log[k].cmd = "show-options"}) <= 1
    /\ \A k \in LogIndices :
           log[k].cmd = "new-window"
               => \E m \in 1..(k - 1) : log[m].cmd = "show-options"

\* The same, for the runs in which the query succeeded.
TargetsWithinBaseWhenRead ==
    BaseIndexRead => C33_TargetsWithinBase

----------------------------------------------------------------------------
(* One window for each worktree                                            *)

SessionNames ==
    {Wt, Wx}

\* The windows whose name ends with "|" and the name.
WindowsOf(name) ==
    {k \in 1..Len(windows) : ~NoWindowMatches(<<windows[k]>>, name)}

\* C34: whatever new, switch and cleanup commands are run one after the
\* other in one repository and one tmux session, for every worktree name at
\* most one window has a name that ends with "|" and the name.
C34_OneWindowForEachWorktree ==
    \A name \in SessionNames : Cardinality(WindowsOf(name)) <= 1

----------------------------------------------------------------------------
(* Cancellation of runCleanup before its window-close step                 *)

\* The signal has arrived and runCleanup has not begun to close the window.
CancelledBeforeClose ==
    ctxCancelled /\ cpc = "syncClose"

WindowKilled ==
    \E k \in CLogIndices : clog[k].cmd = "kill-window" /\ clog[k].ok

WorktreeRemoved ==
    \E k \in CLogIndices : clog[k].cmd = "git worktree remove" /\ clog[k].ok

\* C35: once the interrupt or termination signal has cancelled runCleanup's
\* context before the window-close step, no destructive step follows: the
\* window is not killed and the worktree is not removed.
C35_NothingDestroyedAfterCancel ==
    [](CancelledBeforeClose => [](~WindowKilled /\ ~WorktreeRemoved))

\* The half of C35 about the worktree.
NoRemovalAfterCancel ==
    [](CancelledBeforeClose => []~WorktreeRemoved)

----------------------------------------------------------------------------
(* The rejection reasons of ValidateWorktreeName                           *)

\* The rules, numbered in the order the claim gives them.
Rules ==
    1..8

RuleViolated(k, name) ==
    CASE k = 1 -> name = <<>>
      [] k = 2 -> Len(name) > MaxNameLen
      [] k = 3 -> \E j \in 1..Len(name) : name[j] \in {"/", "\\"}
      [] k = 4 -> name \in {<<".">>, <<".", ".">>}
      [] k = 5 -> \E j \in 1..(Len(name) - 1) : name[j] = "." /\ name[j + 1] = "."
      [] k = 6 -> \E j \in 1..Len(name) : name[j] \in {"<NUL>", "<LF>", "<CR>", "<TAB>"}
      [] k = 7 -> CleanName(name) # name
      [] k = 8 -> ToUpper(name) \in ReservedNames

RuleMessage(k) ==
    CASE k = 1 -> "worktree name cannot be empty"
      [] k = 2 -> "worktree name too long"
      [] k = 3 -> "worktree name cannot contain path separators"
      [] k = 4 -> "worktree name cannot be '.' or '..'"
      [] k = 5 -> "worktree name cannot contain '..'"
      [] k = 6 -> "worktree name contains invalid characters"
      [] k = 7 -> "worktree name contains invalid path components"
      [] k = 8 -> "worktree name cannot be a reserved system name"

RulesViolated(name) ==
    {k \in Rules : RuleViolated(k, name)}

FirstRuleViolated(name) ==
    CHOOSE k \in RulesViolated(name) : \A m \in RulesViolated(name) : k <= m

\* C36: the error ValidateWorktreeName returns is that of the first rule the
\* name violates, in the order empty, too long, path separator, is "." or
\* "..", contains "..", control character, path-normalisation mismatch,
\* reserved name; a name that violates no rule is accepted.
C36_FirstViolatedRuleIsReported ==
    Validated =>
        nameErr = (IF RulesViolated(worktreeName) = {} THEN ""
                   ELSE RuleMessage(FirstRuleViolated(worktreeName)))

\* "a/../etc", which holds a separator and "..", was rejected.
C36_Witness ==
    /\ NameRejected
    /\ worktreeName = <<"a", "/", ".", ".", "/", "e", "t", "c">>
    /\ Cardinality(RulesViolated(worktreeName)) > 1
    /\ nameErr = RuleMessage(3)

\* The rejection reasons of the contract and their messages; DotDot has two.
Reasons ==
    {"Empty", "TooLong", "PathSeparator", "DotDot", "ControlChar",
     "PathNormalizationMismatch", "ReservedName"}

MessagesOf(reason) ==
    CASE reason = "Empty" -> {RuleMessage(1)}
      [] reason = "TooLong" -> {RuleMessage(2)}
      [] reason = "PathSeparator" -> {RuleMessage(3)}
      [] reason = "DotDot" -> {RuleMessage(4), RuleMessage(5)}
      [] reason = "ControlChar" -> {RuleMessage(6)}
      [] reason = "PathNormalizationMismatch" -> {RuleMessage(7)}
      [] reason = "ReservedName" -> {RuleMessage(8)}

\* One name for each reason but the mismatch, all of them inputs.
ReasonSamples ==
    {<<>>, LongName(MaxNameLen + 1), <<"a", "/">>, <<".", ".">>, <<"a", "<TAB>">>,
     <<"n", "u", "l">>}

\* C37 as stated: each of the seven rejection reasons is returned for at
\* least one input string; the inputs are those a run may validate.
C37_EveryReasonReturned ==
    Validated =>
        \A reason \in Reasons :
            \E name \in NameInputsOfValidate :
                ValidateWorktreeName(name) \in MessagesOf(reason)

\* C37 as amended: each of the reasons Empty, TooLong, PathSeparator, DotDot,
\* ControlChar and ReservedName is returned for at least one input string;
\* PathNormalizationMismatch is returned for none.
C37_EveryReasonButMismatchReturned ==
    /\ \A reason \in Reasons \ {"PathNormalizationMismatch"} :
           \E name \in ReasonSamples :
               /\ name \in NameInputsOfValidate
               /\ ValidateWorktreeName(name) \in MessagesOf(reason)
    /\ nameErr \notin MessagesOf("PathNormalizationMismatch")

\* A name with a control character was rejected for it.
C37_Witness ==
    /\ NameRejected
    /\ worktreeName = <<"a", "<LF>", "b">>
    /\ nameErr \in MessagesOf("ControlChar")

----------------------------------------------------------------------------
(* The interactive list of ko list, src/cmd/list.go 38-205: runList builds  *)
(* a listModel, the bubbletea program hands it one message after the       *)
(* other, and runList switches to the selected worktree once the program   *)
(* has ended.                                                              *)

\* The names of the worktrees a list may show, in the order of the list.
ListNames ==
    <<"test1", "test2", "test3", "test4">>

\* The lists runList or a test may build: the first n of the names.
Worktrees(n) ==
    [k \in 1..n |-> ListNames[k]]

\* The keys Update names, as msg.String() spells them.
QuitKeys ==
    {"q", "esc", "ctrl+c"}

NavigationKeys ==
    {"up", "down", "k", "j", "g", "home", "G", "end"}

ListKeys ==
    QuitKeys \cup NavigationKeys \cup {"enter"}

\* The messages the program may hand to Update: the keys it names, a key it
\* does not name, and a message that is no key at all.
ListMsgs ==
    ListKeys \cup {"x", "tea.WindowSizeMsg"}

\* 166-169, 176-179: one item up, unless the cursor is on the first.
CursorUp(m) ==
    IF m.cursor > 0 THEN m.cursor - 1 ELSE m.cursor

\* The step down without its guard.
CursorDownUnguarded(m) ==
    m.cursor + 1

\* 170-173, 180-183: one item down, unless the cursor is on the last.
CursorDown(m) ==
    IF m.cursor < Len(m.worktrees) - 1 THEN m.cursor + 1 ELSE m.cursor

\* 188-191: the last item, unless the list is empty.
CursorEnd(m) ==
    IF Len(m.worktrees) > 0 THEN Len(m.worktrees) - 1 ELSE m.cursor

\* The check of enter without the test of inTmux.
CanSelectOutsideTmux(m) ==
    m.cursor >= 0 /\ m.cursor < Len(m.worktrees)

\* 196: enter selects only in tmux and with the cursor on an item.
CanSelect(m) ==
    m.inTmux /\ m.cursor >= 0 /\ m.cursor < Len(m.worktrees)

\* Update, 156-205: the model and the tea.Cmd it returns for a message.  The
\* cursor counts from 0, the sequence worktrees from 1.
Update(m, msg) ==
    IF msg \in QuitKeys
      THEN [model |-> [m EXCEPT !.quitting = TRUE], cmd |-> "tea.Quit"]
    ELSE IF msg \in {"up", "k"}
      THEN [model |-> [m EXCEPT !.cursor = CursorUp(m)], cmd |-> "nil"]
    ELSE IF msg \in {"down", "j"}
      THEN [model |-> [m EXCEPT !.cursor = CursorDown(m)], cmd |-> "nil"]
    ELSE IF msg \in {"g", "home"}
      THEN [model |-> [m EXCEPT !.cursor = 0], cmd |-> "nil"]
    ELSE IF msg \in {"G", "end"}
      THEN [model |-> [m EXCEPT !.cursor = CursorEnd(m)], cmd |-> "nil"]
    ELSE IF msg = "enter" /\ CanSelect(m)
      THEN [model |-> [m EXCEPT !.selected = m.worktrees[m.cursor + 1],
                                !.switchSuccess = TRUE],
            cmd |-> "tea.Quit"]
    ELSE [model |-> m, cmd |-> "nil"]

\* The positions runList (119-131) or a test gives the cursor at the start:
\* any item of the list, 0 for an empty list.
StartCursors(n) ==
    IF n = 0 THEN {0} ELSE 0..(n - 1)

\* The list as it is first shown.  Update has not been called, Init (151-153)
\* has returned nil, nothing is selected.
InitList ==
    /\ CreateIdle
    /\ CleanupIdle
    /\ inTmux \in BOOLEAN
    /\ worktreeName = <<>>
    /\ windows = <<>>
    /\ ownWindow = 0
    /\ calls = NoCalls
    /\ wrapper = NoWrapper
    /\ finds = NoFinds
    /\ nameErr = ""
    /\ \E n \in 0..MaxListLen :
         \E c \in StartCursors(n) :
           listModel =
             [m |-> [worktrees |-> Worktrees(n), cursor |-> c, selected |-> "",
                     quitting |-> FALSE, inTmux |-> inTmux, switchSuccess |-> FALSE],
              msg |-> "", cmd |-> "nil", quitRequested |-> FALSE,
              running |-> TRUE, switchedTo |-> ""]

\* The program hands Update one message and keeps the model it returns.  A
\* tea.Quit it returns ends the program only when its message is handled,
\* so that messages already waiting are still handed over.
ListUpdate ==
    /\ listModel # NoList
    /\ listModel.running
    /\ \E msg \in ListMsgs :
         LET r == Update(listModel.m, msg) IN
           listModel' = [listModel EXCEPT
                           !.m = r.model, !.msg = msg, !.cmd = r.cmd,
                           !.quitRequested = listModel.quitRequested \/ r.cmd = "tea.Quit"]
    /\ UNCHANGED <<createVars, cleanupEnv, cleanupLocals, childVars, clog,
                   quiet, mainRepoRoot, notifying, calls, wrapper, finds, nameErr>>

\* 134: the program handles the message of tea.Quit, and Run returns the
\* model as it is.
ListQuit ==
    /\ listModel # NoList
    /\ listModel.running
    /\ listModel.quitRequested
    /\ listModel' = [listModel EXCEPT !.running = FALSE]
    /\ UNCHANGED <<createVars, cleanupEnv, cleanupLocals, childVars, clog,
                   quiet, mainRepoRoot, notifying, calls, wrapper, finds, nameErr>>

\* 139-147: runList switches to the selected worktree, if there is one and
\* the command runs in tmux.
ListSwitch ==
    /\ listModel # NoList
    /\ ~listModel.running
    /\ listModel.switchedTo = ""
    /\ listModel.m.selected # ""
    /\ inTmux
    /\ listModel' = [listModel EXCEPT !.switchedTo = listModel.m.selected]
    /\ UNCHANGED <<createVars, cleanupEnv, cleanupLocals, childVars, clog,
                   quiet, mainRepoRoot, notifying, calls, wrapper, finds, nameErr>>

NextList ==
    \/ ListUpdate
    \/ ListQuit
    \/ ListSwitch

SpecList ==
    InitList /\ [][NextList]_vars

----------------------------------------------------------------------------
(* The cursor and the selection of the interactive list.                   *)

\* The last position of a list of n items, 0 for an empty list.
LastPosition(n) ==
    IF n - 1 > 0 THEN n - 1 ELSE 0

\* Update is handed the message msg in this step.
Handed(msg) ==
    /\ listModel.running
    /\ listModel'.running
    /\ listModel'.msg = msg
    /\ listModel' = [listModel EXCEPT !.m = listModel'.m, !.msg = msg,
                                      !.cmd = listModel'.cmd,
                                      !.quitRequested = listModel'.quitRequested]

\* C38: in the interactive list, whatever messages Update has been handed,
\* 0 <= cursor <= max(0, len(worktrees)-1), for an empty list too; up and k
\* with the cursor at 0, and down and j with the cursor on the last item,
\* leave the cursor where it is.
C38_CursorStaysInList ==
    /\ [](/\ listModel.m.cursor >= 0
          /\ listModel.m.cursor <= LastPosition(Len(listModel.m.worktrees)))
    /\ [][/\ ((Handed("up") \/ Handed("k")) /\ listModel.m.cursor = 0)
              => listModel'.m.cursor = 0
          /\ ((Handed("down") \/ Handed("j"))
              /\ listModel.m.cursor = LastPosition(Len(listModel.m.worktrees)))
              => listModel'.m.cursor = listModel.m.cursor]_vars

\* j was the last message handed to a list of one item, whose only position
\* is the last one.
C38_Witness ==
    /\ listModel.msg = "j"
    /\ Len(listModel.m.worktrees) = 1
    /\ listModel.m.cursor = 0

\* C39: in the interactive list, selected and switchSuccess are set only by
\* enter while inTmux is true, together and with a request to quit, and
\* selected is then the name of the worktree under the cursor; while inTmux
\* is false selected stays empty and switchSuccess false whatever the keys,
\* and enter returns no tea.Quit.
C39_SelectedOnlyByEnterInTmux ==
    /\ [][(\/ listModel'.m.selected # listModel.m.selected
           \/ listModel'.m.switchSuccess # listModel.m.switchSuccess)
          => /\ Handed("enter")
             /\ listModel.m.inTmux
             /\ listModel'.m.selected = listModel.m.worktrees[listModel.m.cursor + 1]
             /\ listModel'.m.selected # ""
             /\ listModel'.m.cursor = listModel.m.cursor
             /\ listModel'.m.switchSuccess
             /\ listModel'.cmd = "tea.Quit"
             /\ listModel'.quitRequested]_vars
    /\ [](/\ (listModel.m.selected # "") = listModel.m.switchSuccess
          /\ listModel.m.selected # "" => listModel.quitRequested
          /\ ~listModel.m.inTmux
               => /\ listModel.m.selected = ""
                  /\ ~listModel.m.switchSuccess
                  /\ listModel.switchedTo = ""
                  /\ listModel.msg = "enter" => listModel.cmd = "nil")

\* enter selected the second worktree of a list shown in tmux, and runList
\* switched to it.
C39_Witness ==
    /\ listModel.msg = "enter"
    /\ listModel.m.inTmux
    /\ listModel.m.cursor = 1
    /\ listModel.m.selected = "test2"
    /\ listModel.m.switchSuccess
    /\ listModel.switchedTo = "test2"

====
